---- MODULE Spec2Model ----
(***************************************************************************)
(* Metadata Deployment Orchestrator of mcp-server-salesforce-ts.           *)
(*                                                                         *)
(* MetadataService (src/src/salesforce/metadata-service.ts, the container  *)
(* based class at lines 263-504) and the jsforce based tools of            *)
(* src/src/salesforce-client.ts are modelled as one state machine: an      *)
(* invocation is a sequence of gateway calls, every call is issued         *)
(* (appended to `calls`, "pending" in `answers`) and answered (its entry   *)
(* of `answers` is set) in separate steps.  The platform is the environment:*)
(* it answers every call with success or failure, keeps the records the    *)
(* create calls made, and reports the deploy states of `script`.           *)
(***************************************************************************)
EXTENDS Naturals, Sequences, FiniteSets

VARIABLES
    op,             \* the tool that is executing, "none" between invocations
    pc,             \* position of the executing invocation
    params,         \* the request of the executing invocation
    calls,          \* gateway calls issued by the executing invocation, in order
    answers,        \* answers[k] is the answer to calls[k], "pending" before it
    containerId,    \* container.id of the executing invocation, 0 before
    entityId,       \* classId / bundleId of the executing invocation, 0 before
    resIdx,         \* index in resources of the next file to write
    deployId,       \* deployRequest.id of the executing invocation, 0 before
    script,         \* deploy states the platform reports on successive queries
    timeoutSeconds, \* pollDeployStatus: the budget of the running poll
    i,              \* pollDeployStatus: the loop counter
    deployResult,   \* pollDeployStatus: State of the last answer, "undefined" before
    pending,        \* completion of the try block while the finally block runs
    outcome,        \* what the caller of the invocation received
    tokenCache,     \* the auth collaborator's cache: "empty" or "set"
    tokenRequested, \* a login exchange happened in the executing invocation
    apexClasses,    \* platform: ApexClass records, oldest first
    bundles,        \* platform: LightningComponentBundle records, oldest first
    containers,     \* platform: ids of the MetadataContainers that exist
    nextId,         \* platform: the id the next created record gets
    inv,            \* number of invocations started
    prev,           \* summary of the invocation before the executing one
    tasks,          \* concurrent invocations: position, container name, id
    now,            \* Date.now(), in milliseconds since the process started
    expiresAt,      \* tokenCache.expiresAt, in seconds
    accessToken,    \* tokenCache.accessToken: the login call that gave it, 0 for ''
    input,          \* the arguments of the function that is evaluated alone
    result          \* what that function returned or threw

vars == <<op, pc, params, calls, answers, containerId, entityId, resIdx,
          deployId, script, timeoutSeconds, i, deployResult, pending, outcome,
          tokenCache, tokenRequested, apexClasses, bundles, containers,
          nextId, inv, prev, tasks, now, expiresAt, accessToken,
          input, result>>

\* ------------------------------------------------------------------ bounds
MaxInvocations == 1
MaxRepeats == 2
MaxScript == 3
MaxDeployScript == 1
MaxTimeout == 4
MaxMissing == 1
MaxTasks == 2
MaxTicks == 2
MaxTargets == 2
MaxRows == 2
MaxRequests == 2

\* --------------------------------------------------------------- constants
DefaultTimeout == 30

\* a createLWC that gives its poll a budget of 90 seconds
LwcTimeout_Longer == DefaultTimeout * 3

LwcTimeout == 60

\* a poller that does not know Completed as a final state
finalStates_NoCompleted == {"Failed", "Error", "Aborted"}

finalStates == {"Completed", "Failed", "Error", "Aborted"}

\* the values of ContainerAsyncRequest.State
DeployStates == {"Queued", "InProgress", "Completed", "Failed", "Error", "Aborted"}

\* a poller that goes on after a failed deploy
IsFinal_CompletedOnly(state) == state = "Completed"

\* finalStates.includes(deployResult.State)
IsFinal(state) == state \in finalStates

\* ----------------------------------------------------------------- helpers
NoOutcome == [kind |-> "none", tag |-> "", info |-> ""]
Return(tag, info) == [kind |-> "return", tag |-> tag, info |-> info]
Throw(tag, info) == [kind |-> "throw", tag |-> tag, info |-> info]

NoInput == [fn |-> "none"]

\* an optional field of a request: left out, or given with the value x
Absent == << >>
Given(x) == << x >>

NoParams == [className |-> "", body |-> "", componentName |-> "",
             htmlContent |-> "", jsContent |-> "", masterLabel |-> "",
             isExposed |-> "undefined", apiName |-> "", profileName |-> "",
             targets |-> Absent, apiVersion |-> Absent]

Call(m, obj, cont, ref, data) ==
    [m |-> m, obj |-> obj, cont |-> cont, ref |-> ref, data |-> data]

\* no call yet
NoCall == Call("none", "", 0, 0, "")

NoPrev == [op |-> "none", params |-> NoParams, creates |-> 0, ok |-> FALSE]

\* number of elements of seq that satisfy P
Count(seq, P(_)) == Cardinality({k \in 1..Len(seq) : P(seq[k])})

IsPost(c, obj) == c.m = "post" /\ c.obj = obj
IsStatusQuery(c) == c.m = "get" /\ c.obj = "ContainerAsyncRequest"
IsContainerDelete(c) == c.m = "delete" /\ c.obj = "MetadataContainer"
IsResourceWrite(c) == c.m = "post" /\ c.obj = "LightningComponentResource"

\* indices in calls of the calls that are not answered yet
inflight == {k \in 1..Len(calls) : answers[k] = "pending"}

\* the invocation awaits the answer to its last call
Awaiting == Len(calls) > 0 /\ answers[Len(calls)] = "pending"

\* the last call is answered with a
Answered(a) == answers' = [answers EXCEPT ![Len(calls)] = a]

\* ------------------------------------------------------------------ inputs
ApexRequests ==
    {[NoParams EXCEPT !.className = c, !.body = b] :
        c \in {"", "Foo"}, b \in {"", "class Foo {}"}}

\* number of required createLWC fields the request lacks
Missing(p) ==
    Cardinality({f \in {"componentName", "htmlContent", "jsContent", "masterLabel"} :
                    p[f] = ""})
    + (IF p.isExposed = "undefined" THEN 1 ELSE 0)

LwcRequests ==
    {p \in {[NoParams EXCEPT !.componentName = c, !.htmlContent = h,
                             !.jsContent = j, !.masterLabel = l, !.isExposed = e] :
                c \in {"", "bar"}, h \in {"", "<template></template>"},
                j \in {"", "export default class{}"}, l \in {"", "Bar"},
                e \in {"undefined", "true", "false"}} :
        Missing(p) <= MaxMissing}

\* the platform's reports for one deploy, at most n of them: only the last
\* state may be terminal, and the platform repeats the last state once the
\* script is used up (so a script never ends with the same state twice)
ScriptsUpTo(n) ==
    UNION {{s \in [1..m -> DeployStates] :
               /\ \A k \in 1..(m - 1) : s[k] \notin finalStates
               /\ m > 1 => s[m] # s[m - 1]} : m \in 1..n}

Scripts == ScriptsUpTo(MaxScript)
DeployScripts == ScriptsUpTo(MaxDeployScript)

StateAt(s, k) == IF k < Len(s) THEN s[k] ELSE s[Len(s)]

\* ------------------------------------------------------------- validation
ApexValid(p) == p.className # "" /\ p.body # ""

LwcValid(p) ==
    /\ p.componentName # ""
    /\ p.htmlContent # ""
    /\ p.jsContent # ""
    /\ p.masterLabel # ""
    /\ p.isExposed # "undefined"

\* ---------------------------------------------------------------- gateway
GatewayResults == {"ok", "http", "auth"}

\* the request interceptor asks getAccessToken for a token: a cache hit needs a
\* cached token that has not expired, anything else is a login exchange, which
\* fills the cache when it succeeds; "auth" is a failed exchange, "http" a
\* non-2xx answer or a network failure of the request itself
Gateway(r) ==
    \E cached \in BOOLEAN :
        /\ cached => tokenCache = "set"
        /\ r = "auth" => ~cached
        /\ tokenCache' = IF ~cached /\ r # "auth" THEN "set" ELSE tokenCache
        /\ tokenRequested' = (tokenRequested \/ ~cached)

resources ==
    << [FilePath |-> ".js", Format |-> "JS"],
       [FilePath |-> ".html", Format |-> "HTML"],
       [FilePath |-> ".js-meta.xml", Format |-> "XML"] >>

IsApex == op = "createApexClass"

\* a member call that leaves the body out
MemberCall_NoBody ==
    IF IsApex
    THEN Call("post", "ApexClassMember", containerId, entityId, "")
    ELSE Call("post", "LightningComponentBundleMember", containerId, entityId, "")

\* the call that attaches the class or the bundle to the container
MemberCall ==
    IF IsApex
    THEN Call("post", "ApexClassMember", containerId, entityId, params.body)
    ELSE Call("post", "LightningComponentBundleMember", containerId, entityId, "")

\* the gateway call the invocation makes at its position
NextCall ==
    CASE pc = "container" ->
            Call("post", "MetadataContainer", 0, 0,
                 IF IsApex THEN "ApexContainer" ELSE "LWCContainer")
      [] pc = "lookup" ->
            Call("get", "query", 0, 0,
                 IF IsApex THEN params.className ELSE params.componentName)
      [] pc = "create" ->
            IF IsApex
            THEN Call("post", "ApexClass", 0, 0, params.body)
            ELSE Call("post", "LightningComponentBundle", 0, 0, params.componentName)
      [] pc = "resource" ->
            Call("post", "LightningComponentResource", 0, entityId,
                 resources[resIdx].FilePath)
      [] pc = "member" -> MemberCall
      [] pc = "trigger" ->
            Call("post", "ContainerAsyncRequest", containerId, 0, "")
      [] pc = "poll" ->
            Call("get", "ContainerAsyncRequest", 0, deployId, "")
      [] pc = "cleanup" ->
            Call("delete", "MetadataContainer", 0, containerId, "")
      [] pc = "directLookup" -> Call("get", "query", 0, 0, params.componentName)
      [] pc = "directCreate" ->
            Call("post", "LightningComponentBundle", 0, 0, params.componentName)
      [] pc = "directResource" ->
            Call("post", "LightningComponentResource", 0, entityId,
                 resources[resIdx].FilePath)

CallSteps == {"container", "lookup", "create", "resource", "member",
              "trigger", "poll", "cleanup",
              "directLookup", "directCreate", "directResource"}

platformVars == <<apexClasses, bundles, containers, nextId>>
pollVars == <<script, timeoutSeconds, i, deployResult, deployId>>
tokenVars == <<tokenCache, tokenRequested>>

invocationVars == <<containerId, entityId, resIdx, pending>>

\* the state of the concurrently running gateway calls
concurrencyVars == <<tasks, now, expiresAt, accessToken>>

\* the state of a function that is evaluated on its own
functionVars == <<input, result>>

\* -------------------------------------------------------------------- Init
Init ==
    /\ op = "none"
    /\ pc = "idle"
    /\ params = NoParams
    /\ calls = << >>
    /\ answers = << >>
    /\ containerId = 0
    /\ entityId = 0
    /\ resIdx = 1
    /\ deployId = 0
    /\ script = << >>
    /\ timeoutSeconds = 0
    /\ i = 0
    /\ deployResult = "undefined"
    /\ pending = NoOutcome
    /\ outcome = NoOutcome
    /\ tokenCache = "empty"
    /\ tokenRequested = FALSE
    /\ apexClasses \in {<< >>, << [Id |-> 1, Name |-> "Foo"] >>}
    /\ bundles \in {<< >>, << [Id |-> 2, Name |-> "bar"] >>}
    /\ containers = {}
    /\ nextId = 3
    /\ inv = 0
    /\ prev = NoPrev
    /\ tasks = << >>
    /\ now = 0
    /\ expiresAt = 0
    /\ accessToken = 0
    /\ input = NoInput
    /\ result = NoOutcome

\* ------------------------------------------- MetadataService: entry points
\* createApexClass up to its first await: the validation and the hand-over to
\* the MetadataContainer create call
createApexClass(p) ==
    /\ pc = "idle"
    /\ op' = "createApexClass"
    /\ params' = p
    /\ inv' = inv + 1
    /\ IF ApexValid(p)
       THEN pc' = "container" /\ outcome' = NoOutcome
       ELSE pc' = "done" /\ outcome' = Throw("Validation", "createApexClass")
    /\ UNCHANGED <<calls, answers, invocationVars, pollVars, tokenVars,
                   platformVars, prev>>
    /\ UNCHANGED <<concurrencyVars, functionVars>>

\* createLWC up to its first await
createLWC(p) ==
    /\ pc = "idle"
    /\ op' = "createLWC"
    /\ params' = p
    /\ inv' = inv + 1
    /\ IF LwcValid(p)
       THEN pc' = "container" /\ outcome' = NoOutcome
       ELSE pc' = "done" /\ outcome' = Throw("Validation", "createLWC")
    /\ UNCHANGED <<calls, answers, invocationVars, pollVars, tokenVars,
                   platformVars, prev>>
    /\ UNCHANGED <<concurrencyVars, functionVars>>

\* a for loop that runs once more than timeoutSeconds times
LoopContinues_OneMore == i <= timeoutSeconds

\* the condition of the for loop of pollDeployStatus
LoopContinues == i < timeoutSeconds

\* toolingApi is called: the request leaves, the invocation awaits the answer
toolingApi ==
    /\ pc \in CallSteps
    /\ inflight = {}
    /\ pc = "poll" => LoopContinues
    /\ calls' = Append(calls, NextCall)
    /\ answers' = Append(answers, "pending")
    /\ UNCHANGED <<op, pc, params, invocationVars, pollVars, outcome, tokenVars,
                   platformVars, inv, prev>>
    /\ UNCHANGED <<concurrencyVars, functionVars>>

\* the try block ends with completion c: the finally block runs next
Finally(c) ==
    /\ pending' = c
    /\ pc' = "cleanup"

\* ids the platform gives to the container and the deploy request of the
\* executing invocation: fresh for every invocation
NewContainerId == 100 + inv
NewDeployId == 200 + inv

\* a container create inside the try block: its failure runs the finally block
ContainerAnswered_RunsFinally ==
    /\ pc = "container"
    /\ Awaiting
    /\ \E r \in GatewayResults :
        /\ Gateway(r)
        /\ Answered(r)
        /\ IF r = "ok"
           THEN /\ containerId' = NewContainerId
                /\ containers' = containers \cup {NewContainerId}
                /\ pc' = "lookup"
                /\ UNCHANGED <<outcome, pending>>
           ELSE /\ Finally(Throw("ToolingApi", "container"))
                /\ UNCHANGED <<outcome, containerId, containers>>
    /\ UNCHANGED <<op, params, calls, entityId, resIdx,
                   pollVars, apexClasses, bundles, nextId, inv, prev>>
    /\ UNCHANGED <<concurrencyVars, functionVars>>

\* the answer to POST MetadataContainer; the call is made before the try block
ContainerAnswered ==
    /\ pc = "container"
    /\ Awaiting
    /\ \E r \in GatewayResults :
        /\ Gateway(r)
        /\ Answered(r)
        /\ IF r = "ok"
           THEN /\ containerId' = NewContainerId
                /\ containers' = containers \cup {NewContainerId}
                /\ pc' = "lookup"
                /\ UNCHANGED outcome
           ELSE /\ outcome' = Throw("ToolingApi", "container")
                /\ pc' = "done"
                /\ UNCHANGED <<containerId, containers>>
    /\ UNCHANGED <<op, params, calls, entityId, resIdx, pending,
                   pollVars, apexClasses, bundles, nextId, inv, prev>>
    /\ UNCHANGED <<concurrencyVars, functionVars>>

\* the rows the lookup query returns
\* a lookup that answers from what the invocation before asked to create
Records_Remembered ==
    IF prev.op = op /\ prev.creates > 0
    THEN << [Id |-> nextId - 1, Name |-> calls[Len(calls)].data] >>
    ELSE SelectSeq(IF IsApex THEN apexClasses ELSE bundles,
                   LAMBDA rec : rec.Name = calls[Len(calls)].data)

\* queryResult.records: the platform's rows with the name the query asks for
Records == SelectSeq(IF IsApex THEN apexClasses ELSE bundles,
                     LAMBDA rec : rec.Name = calls[Len(calls)].data)

\* an update path that takes the id of the last row
FoundId_LastRow == Records[Len(Records)].Id

\* queryResult.records[0].Id
FoundId == Records[1].Id

\* a createApexClass that goes from the class straight to the deploy trigger
AfterCreate_NoMember == IF IsApex THEN "trigger" ELSE "resource"

\* the step after the artifact's id is known
AfterCreate == IF IsApex THEN "member" ELSE "resource"

\* the answer to the lookup query and the branch on records.length
LookupAnswered ==
    /\ pc = "lookup"
    /\ Awaiting
    /\ \E r \in GatewayResults :
        /\ Gateway(r)
        /\ Answered(IF r # "ok" THEN r ELSE IF Len(Records) > 0 THEN "found" ELSE "none")
        /\ IF r = "ok"
           THEN IF Len(Records) > 0
                THEN /\ entityId' = FoundId
                     /\ pc' = AfterCreate
                     /\ UNCHANGED pending
                ELSE /\ pc' = "create"
                     /\ UNCHANGED <<entityId, pending>>
           ELSE /\ Finally(Throw("ToolingApi", "lookup"))
                /\ UNCHANGED entityId
    /\ UNCHANGED <<op, params, calls, containerId, resIdx, outcome,
                   pollVars, platformVars, inv, prev>>
    /\ UNCHANGED <<concurrencyVars, functionVars>>

\* the answer to POST ApexClass / POST LightningComponentBundle
CreateAnswered ==
    /\ pc = "create"
    /\ Awaiting
    /\ \E r \in GatewayResults :
        /\ Gateway(r)
        /\ Answered(r)
        /\ IF r = "ok"
           THEN /\ entityId' = nextId
                /\ nextId' = nextId + 1
                /\ IF IsApex
                   THEN /\ apexClasses' = Append(apexClasses,
                                [Id |-> nextId, Name |-> params.className])
                        /\ UNCHANGED bundles
                   ELSE /\ bundles' = Append(bundles,
                                [Id |-> nextId, Name |-> params.componentName])
                        /\ UNCHANGED apexClasses
                /\ pc' = AfterCreate
                /\ UNCHANGED pending
           ELSE /\ Finally(Throw("ToolingApi", "create"))
                /\ UNCHANGED <<entityId, nextId, apexClasses, bundles>>
    /\ UNCHANGED <<op, params, calls, containerId, resIdx, outcome,
                   pollVars, containers, inv, prev>>
    /\ UNCHANGED <<concurrencyVars, functionVars>>

\* a loop that is left after its first write
AfterResource_SkipsRest == "member"

\* the for loop over resources: the next write, or the step after the loop
AfterResource == IF resIdx = Len(resources) THEN "member" ELSE "resource"

\* a loop that goes on with the next file when a write failed
ResourceAnswered_IgnoresFailure ==
    /\ pc = "resource"
    /\ Awaiting
    /\ \E r \in GatewayResults :
        /\ Gateway(r)
        /\ Answered(r)
        /\ IF r = "ok"
           THEN /\ resIdx' = resIdx + 1
                /\ pc' = AfterResource
                /\ UNCHANGED pending
           ELSE /\ resIdx' = resIdx + 1
                /\ pc' = AfterResource
                /\ UNCHANGED pending
    /\ UNCHANGED <<op, params, calls, containerId, entityId, outcome,
                   pollVars, platformVars, inv, prev>>
    /\ UNCHANGED <<concurrencyVars, functionVars>>

\* the answer to one POST LightningComponentResource of the for loop
ResourceAnswered ==
    /\ pc = "resource"
    /\ Awaiting
    /\ \E r \in GatewayResults :
        /\ Gateway(r)
        /\ Answered(r)
        /\ IF r = "ok"
           THEN /\ resIdx' = resIdx + 1
                /\ pc' = AfterResource
                /\ UNCHANGED pending
           ELSE /\ Finally(Throw("ToolingApi", "resource"))
                /\ UNCHANGED resIdx
    /\ UNCHANGED <<op, params, calls, containerId, entityId, outcome,
                   pollVars, platformVars, inv, prev>>
    /\ UNCHANGED <<concurrencyVars, functionVars>>

\* the answer to POST ApexClassMember / POST LightningComponentBundleMember
MemberAnswered ==
    /\ pc = "member"
    /\ Awaiting
    /\ \E r \in GatewayResults :
        /\ Gateway(r)
        /\ Answered(r)
        /\ IF r = "ok"
           THEN pc' = "trigger" /\ UNCHANGED pending
           ELSE Finally(Throw("ToolingApi", "member"))
    /\ UNCHANGED <<op, params, calls, containerId, entityId, resIdx,
                   outcome, pollVars, platformVars, inv, prev>>
    /\ UNCHANGED <<concurrencyVars, functionVars>>

\* the answer to POST ContainerAsyncRequest and the call of pollDeployStatus
TriggerAnswered ==
    /\ pc = "trigger"
    /\ Awaiting
    /\ \E r \in GatewayResults :
        /\ Gateway(r)
        /\ Answered(r)
        /\ IF r = "ok"
           THEN /\ deployId' = NewDeployId
                /\ script' \in DeployScripts
                /\ timeoutSeconds' = IF IsApex THEN DefaultTimeout ELSE LwcTimeout
                /\ i' = 0
                /\ deployResult' = "undefined"
                /\ pc' = "poll"
                /\ UNCHANGED pending
           ELSE /\ Finally(Throw("ToolingApi", "trigger"))
                /\ UNCHANGED pollVars
    /\ UNCHANGED <<op, params, calls, containerId, entityId, resIdx,
                   outcome, platformVars, inv, prev>>
    /\ UNCHANGED <<concurrencyVars, functionVars>>

\* ------------------------------------------------------- pollDeployStatus
InHarness == op = "pollDeployStatus"

\* a poller that swallows the error and goes on with its loop
PollThrows_Swallows(c) == UNCHANGED <<pc, pending, outcome>>

\* an error leaves pollDeployStatus: inside an invocation it ends the try block
PollThrows(c) ==
    IF InHarness
    THEN outcome' = c /\ pc' = "done" /\ UNCHANGED pending
    ELSE Finally(c) /\ UNCHANGED outcome

\* the answer to one status query: the loop body after the await
StatusAnswered ==
    /\ pc = "poll"
    /\ Awaiting
    /\ \E r \in GatewayResults :
        /\ Gateway(r)
        /\ IF r = "ok"
           THEN LET state == StateAt(script, Count(calls, IsStatusQuery)) IN
                /\ Answered(state)
                /\ deployResult' = state
                /\ IF IsFinal(state)
                   THEN /\ UNCHANGED <<i, pending>>
                        /\ IF InHarness
                           THEN outcome' = Return("deployResult", state) /\ pc' = "done"
                           ELSE pc' = "check" /\ UNCHANGED outcome
                   ELSE /\ i' = i + 1
                        /\ UNCHANGED <<pc, pending, outcome>>
           ELSE /\ Answered(r)
                /\ PollThrows(Throw("ToolingApi", "poll"))
                /\ UNCHANGED <<i, deployResult>>
    /\ UNCHANGED <<op, params, calls, containerId, entityId, resIdx,
                   deployId, script, timeoutSeconds, platformVars, inv, prev>>
    /\ UNCHANGED <<concurrencyVars, functionVars>>

\* a timeout that leaves the invocation without running the finally block
PollTimeout_NoCleanup ==
    /\ pc = "poll"
    /\ inflight = {}
    /\ ~LoopContinues
    /\ outcome' = Throw("Timeout", deployResult)
    /\ pc' = "done"
    /\ UNCHANGED <<op, params, calls, answers, containerId, entityId, resIdx,
                   pending, pollVars, tokenVars, platformVars, inv, prev>>
    /\ UNCHANGED <<concurrencyVars, functionVars>>

\* the loop ends without a terminal state: the throw after the for loop
PollTimeout ==
    /\ pc = "poll"
    /\ inflight = {}
    /\ ~LoopContinues
    /\ PollThrows(Throw("Timeout", deployResult))
    /\ UNCHANGED <<op, params, calls, answers, containerId, entityId, resIdx,
                   pollVars, tokenVars, platformVars, inv, prev>>
    /\ UNCHANGED <<concurrencyVars, functionVars>>

\* a caller that returns success whatever state the poller returned
DeployChecked_AlwaysSuccess ==
    /\ pc = "check"
    /\ Finally(Return("success",
            IF IsApex THEN params.className ELSE params.componentName))
    /\ UNCHANGED <<op, params, calls, answers, containerId, entityId, resIdx,
                   outcome, pollVars, tokenVars, platformVars, inv, prev>>
    /\ UNCHANGED <<concurrencyVars, functionVars>>

\* the caller's test of deployResult.State and its return statement
DeployChecked ==
    /\ pc = "check"
    /\ IF deployResult # "Completed"
       THEN Finally(Throw("DeployFailed", deployResult))
       ELSE Finally(Return("success",
                IF IsApex THEN params.className ELSE params.componentName))
    /\ UNCHANGED <<op, params, calls, answers, containerId, entityId, resIdx,
                   outcome, pollVars, tokenVars, platformVars, inv, prev>>
    /\ UNCHANGED <<concurrencyVars, functionVars>>

\* a cleanup whose delete removes every container the platform has
CleanupAnswered_Sweeps ==
    /\ pc = "cleanup"
    /\ Awaiting
    /\ \E r \in GatewayResults :
        /\ Gateway(r)
        /\ Answered(r)
        /\ IF r = "ok"
           THEN /\ containers' = {}
                /\ outcome' = pending
           ELSE /\ outcome' = Throw("ToolingApi", "cleanup")
                /\ UNCHANGED containers
    /\ pc' = "done"
    /\ UNCHANGED <<op, params, calls, containerId, entityId, resIdx, pending,
                   pollVars, apexClasses, bundles, nextId, inv, prev>>
    /\ UNCHANGED <<concurrencyVars, functionVars>>

\* the answer to DELETE MetadataContainer in the finally block: an exception
\* of the finally block becomes the completion of the whole function
CleanupAnswered ==
    /\ pc = "cleanup"
    /\ Awaiting
    /\ \E r \in GatewayResults :
        /\ Gateway(r)
        /\ Answered(r)
        /\ IF r = "ok"
           THEN /\ containers' = containers \ {containerId}
                /\ outcome' = pending
           ELSE /\ outcome' = Throw("ToolingApi", "cleanup")
                /\ UNCHANGED containers
    /\ pc' = "done"
    /\ UNCHANGED <<op, params, calls, containerId, entityId, resIdx, pending,
                   pollVars, apexClasses, bundles, nextId, inv, prev>>
    /\ UNCHANGED <<concurrencyVars, functionVars>>

\* the promise of the invocation settles: the dispatcher answers the request
\* and the process is ready for the next one.  prev is a history variable: it
\* keeps the settled invocation when the next one is to repeat it.
Settle(remember) ==
    /\ pc = "done"
    /\ inflight = {}
    /\ ~InHarness
    /\ prev' = IF remember
               THEN [op |-> op, params |-> params,
                     creates |-> Count(calls,
                         LAMBDA c : IsPost(c, "LightningComponentBundle")),
                     ok |-> outcome.kind = "return"]
               ELSE prev
    /\ op' = "none"
    /\ pc' = "idle"
    /\ params' = NoParams
    /\ calls' = << >>
    /\ answers' = << >>
    /\ containerId' = 0
    /\ entityId' = 0
    /\ resIdx' = 1
    /\ deployId' = 0
    /\ script' = << >>
    /\ timeoutSeconds' = 0
    /\ i' = 0
    /\ deployResult' = "undefined"
    /\ pending' = NoOutcome
    /\ outcome' = NoOutcome
    /\ tokenRequested' = FALSE
    /\ UNCHANGED <<tokenCache, platformVars, inv>>
    /\ UNCHANGED <<concurrencyVars, functionVars>>

\* ----------------- MetadataService.createLWC, the variant without container
\* createLWC up to its first await: the validation, then the lookup
direct_createLWC(p) ==
    /\ pc = "idle"
    /\ op' = "createLWC.direct"
    /\ params' = p
    /\ inv' = inv + 1
    /\ IF LwcValid(p)
       THEN pc' = "directLookup" /\ outcome' = NoOutcome
       ELSE pc' = "done" /\ outcome' = Throw("Validation", "createLWC")
    /\ UNCHANGED <<calls, answers, invocationVars, pollVars, tokenVars,
                   platformVars, prev>>
    /\ UNCHANGED <<concurrencyVars, functionVars>>

\* the catch block logs the error and rethrows it
Rethrow(c) ==
    /\ outcome' = c
    /\ pc' = "done"

\* the answer to the lookup query and the branch on records.length
DirectLookupAnswered ==
    /\ pc = "directLookup"
    /\ Awaiting
    /\ \E r \in GatewayResults :
        /\ Gateway(r)
        /\ Answered(IF r # "ok" THEN r ELSE IF Len(Records) > 0 THEN "found" ELSE "none")
        /\ IF r = "ok"
           THEN IF Len(Records) > 0
                THEN /\ entityId' = Records[1].Id
                     /\ pc' = "directResource"
                     /\ UNCHANGED outcome
                ELSE /\ pc' = "directCreate"
                     /\ UNCHANGED <<entityId, outcome>>
           ELSE /\ Rethrow(Throw("ToolingApi", "lookup"))
                /\ UNCHANGED entityId
    /\ UNCHANGED <<op, params, calls, containerId, resIdx, pending,
                   pollVars, platformVars, inv, prev>>
    /\ UNCHANGED <<concurrencyVars, functionVars>>

\* the answer to POST LightningComponentBundle
DirectCreateAnswered ==
    /\ pc = "directCreate"
    /\ Awaiting
    /\ \E r \in GatewayResults :
        /\ Gateway(r)
        /\ Answered(r)
        /\ IF r = "ok"
           THEN /\ entityId' = nextId
                /\ nextId' = nextId + 1
                /\ bundles' = Append(bundles,
                        [Id |-> nextId, Name |-> params.componentName])
                /\ pc' = "directResource"
                /\ UNCHANGED outcome
           ELSE /\ Rethrow(Throw("ToolingApi", "create"))
                /\ UNCHANGED <<entityId, nextId, bundles>>
    /\ UNCHANGED <<op, params, calls, containerId, resIdx, pending,
                   pollVars, apexClasses, containers, inv, prev>>
    /\ UNCHANGED <<concurrencyVars, functionVars>>

\* the answer to one POST LightningComponentResource of the for loop; after
\* the last one the function returns success
DirectResourceAnswered ==
    /\ pc = "directResource"
    /\ Awaiting
    /\ \E r \in GatewayResults :
        /\ Gateway(r)
        /\ Answered(r)
        /\ IF r = "ok"
           THEN /\ resIdx' = resIdx + 1
                /\ IF resIdx = Len(resources)
                   THEN /\ pc' = "done"
                        /\ outcome' = Return("success", params.componentName)
                   ELSE UNCHANGED <<pc, outcome>>
           ELSE /\ Rethrow(Throw("ToolingApi", "resource"))
                /\ UNCHANGED resIdx
    /\ UNCHANGED <<op, params, calls, containerId, entityId, pending,
                   pollVars, platformVars, inv, prev>>
    /\ UNCHANGED <<concurrencyVars, functionVars>>

\* ------------------------------------------ salesforce-client.ts (jsforce)
\* a jsforce call resolves with success true, resolves with success false, or
\* rejects
JsforceResults == {"ok", "unsuccessful", "rejected"}

sfdc_resources ==
    << [FilePath |-> ".html", Format |-> "HTML"],
       [FilePath |-> ".js", Format |-> "JavaScript"],
       [FilePath |-> ".js-meta.xml", Format |-> "XML"] >>

\* the registered createApexClass tool: execute() up to its first await
sfdc_createApexClass(p) ==
    /\ pc = "idle"
    /\ op' = "sfdc.createApexClass"
    /\ params' = p
    /\ inv' = inv + 1
    /\ pc' = "connect"
    /\ outcome' = NoOutcome
    /\ UNCHANGED <<calls, answers, invocationVars, pollVars, tokenVars,
                   platformVars, prev>>
    /\ UNCHANGED <<concurrencyVars, functionVars>>

\* createLWC(conn, params) up to its first await
sfdc_createLWC(p) ==
    /\ pc = "idle"
    /\ op' = "sfdc.createLWC"
    /\ params' = p
    /\ inv' = inv + 1
    /\ pc' = "sfdcBundle"
    /\ outcome' = NoOutcome
    /\ UNCHANGED <<calls, answers, invocationVars, pollVars, tokenVars,
                   platformVars, prev>>
    /\ UNCHANGED <<concurrencyVars, functionVars>>

\* requests of createCustomObject / createCustomField
ObjectRequests == {[NoParams EXCEPT !.apiName = a] : a \in {"Prodotto", "Codice"}}

\* requests of updateFieldPermissions
PermissionRequests ==
    {[NoParams EXCEPT !.apiName = "Codice", !.profileName = n] :
        n \in {"Admin", "Ghost"}}

\* the profiles of the platform
Profiles == {"Admin"}

\* the registered createCustomObject tool: execute() up to its first await
sfdc_createCustomObject(p) ==
    /\ pc = "idle"
    /\ op' = "sfdc.createCustomObject"
    /\ params' = p
    /\ inv' = inv + 1
    /\ pc' = "connect"
    /\ outcome' = NoOutcome
    /\ UNCHANGED <<calls, answers, invocationVars, pollVars, tokenVars,
                   platformVars, prev>>
    /\ UNCHANGED <<concurrencyVars, functionVars>>

\* the registered createCustomField tool: execute() up to its first await
sfdc_createCustomField(p) ==
    /\ pc = "idle"
    /\ op' = "sfdc.createCustomField"
    /\ params' = p
    /\ inv' = inv + 1
    /\ pc' = "connect"
    /\ outcome' = NoOutcome
    /\ UNCHANGED <<calls, answers, invocationVars, pollVars, tokenVars,
                   platformVars, prev>>
    /\ UNCHANGED <<concurrencyVars, functionVars>>

\* updateFieldPermissions(conn, params) up to its metadata call
sfdc_updateFieldPermissions(p) ==
    /\ pc = "idle"
    /\ op' = "sfdc.updateFieldPermissions"
    /\ params' = p
    /\ inv' = inv + 1
    /\ pc' = "sfdcMetadata"
    /\ outcome' = NoOutcome
    /\ UNCHANGED <<calls, answers, invocationVars, pollVars, tokenVars,
                   platformVars, prev>>
    /\ UNCHANGED <<concurrencyVars, functionVars>>

\* an updateFieldPermissions that creates the profile
MetadataCall_CreatesProfile ==
    CASE op = "sfdc.createCustomObject" ->
            Call("post", "CustomObject", 0, 0, params.apiName)
      [] op = "sfdc.createCustomField" ->
            Call("post", "CustomField", 0, 0, params.apiName)
      [] op = "sfdc.updateFieldPermissions" ->
            Call("post", "Profile", 0, 0, params.profileName)

\* conn.metadata.create / conn.metadata.update of the three metadata tools
MetadataCall ==
    CASE op = "sfdc.createCustomObject" ->
            Call("post", "CustomObject", 0, 0, params.apiName)
      [] op = "sfdc.createCustomField" ->
            Call("post", "CustomField", 0, 0, params.apiName)
      [] op = "sfdc.updateFieldPermissions" ->
            Call("update", "Profile", 0, 0, params.profileName)

NextJsforceCall ==
    CASE pc = "connect" -> Call("post", "jwt.authorize", 0, 0, "")
      [] pc = "sfdcMetadata" -> MetadataCall
      [] pc = "sfdcCreate" -> Call("post", "ApexClass", 0, 0, params.body)
      [] pc = "sfdcBundle" ->
            Call("post", "LightningComponentBundle", 0, 0, params.componentName)
      [] pc = "rollback" ->
            Call("delete", "LightningComponentBundle", 0, entityId, "")

\* a single awaited jsforce call leaves
jsforceCall ==
    /\ pc \in {"connect", "sfdcCreate", "sfdcBundle", "rollback", "sfdcMetadata"}
    /\ pc = "rollback" => Count(calls, LAMBDA c : c.m = "delete") = 0
    /\ pc # "rollback" => inflight = {}
    /\ calls' = Append(calls, NextJsforceCall)
    /\ answers' = Append(answers, "pending")
    /\ UNCHANGED <<op, pc, params, invocationVars, pollVars, outcome, tokenVars,
                   platformVars, inv, prev>>
    /\ UNCHANGED <<concurrencyVars, functionVars>>

\* getSalesforceConnection: the answer to conn.jwt.authorize
ConnectAnswered ==
    /\ pc = "connect"
    /\ Awaiting
    /\ tokenRequested' = TRUE
    /\ \E r \in {"ok", "rejected"} :
        /\ Answered(r)
        /\ IF r = "ok"
           THEN /\ pc' = IF op = "sfdc.createApexClass"
                         THEN "sfdcCreate" ELSE "sfdcMetadata"
                /\ UNCHANGED outcome
           ELSE pc' = "done" /\ outcome' = Throw("Auth", "connect")
    /\ UNCHANGED <<op, params, calls, invocationVars, pollVars, tokenCache,
                   platformVars, inv, prev>>
    /\ UNCHANGED <<concurrencyVars, functionVars>>

\* the platform refuses a second record of the same name
NameFree(recs, name) == \A k \in 1..Len(recs) : recs[k].Name # name

\* createApexClass(conn, params): the answer to the ApexClass create, returned
\* to the caller as it is
SfdcCreateAnswered ==
    /\ pc = "sfdcCreate"
    /\ Awaiting
    /\ pc' = "done"
    /\ \E r \in JsforceResults :
        /\ Answered(r)
        /\ r = "ok" => NameFree(apexClasses, params.className)
        /\ IF r = "ok"
           THEN /\ apexClasses' = Append(apexClasses,
                        [Id |-> nextId, Name |-> params.className])
                /\ nextId' = nextId + 1
                /\ outcome' = Return("result", "success")
           ELSE /\ UNCHANGED <<apexClasses, nextId>>
                /\ outcome' = IF r = "unsuccessful"
                              THEN Return("result", "unsuccessful")
                              ELSE Throw("jsforce", "create")
    /\ UNCHANGED <<op, params, calls, invocationVars, pollVars, tokenVars,
                   bundles, containers, inv, prev>>
    /\ UNCHANGED <<concurrencyVars, functionVars>>

\* a metadata tool that repeats its call when the platform refused it
MetadataAnswered_Retries ==
    /\ pc = "sfdcMetadata"
    /\ Awaiting
    /\ \E r \in JsforceResults :
        /\ Answered(r)
        /\ (r = "ok" /\ op = "sfdc.updateFieldPermissions") =>
              params.profileName \in Profiles
        /\ IF r = "unsuccessful"
           THEN UNCHANGED <<pc, outcome>>
           ELSE /\ pc' = "done"
                /\ outcome' = IF r = "rejected"
                              THEN Throw("jsforce", "metadata")
                              ELSE Return("result", r)
    /\ UNCHANGED <<op, params, calls, invocationVars, pollVars, tokenVars,
                   platformVars, inv, prev>>
    /\ UNCHANGED <<concurrencyVars, functionVars>>

\* the answer to conn.metadata.create / conn.metadata.update, returned to the
\* caller as it is; the platform updates existing profiles only
MetadataAnswered ==
    /\ pc = "sfdcMetadata"
    /\ Awaiting
    /\ \E r \in JsforceResults :
        /\ Answered(r)
        /\ (r = "ok" /\ op = "sfdc.updateFieldPermissions") =>
              params.profileName \in Profiles
        /\ pc' = "done"
        /\ outcome' = IF r = "rejected"
                      THEN Throw("jsforce", "metadata")
                      ELSE Return("result", r)
    /\ UNCHANGED <<op, params, calls, invocationVars, pollVars, tokenVars,
                   platformVars, inv, prev>>
    /\ UNCHANGED <<concurrencyVars, functionVars>>

\* createLWC(conn, params): the answer to the bundle create
BundleAnswered ==
    /\ pc = "sfdcBundle"
    /\ Awaiting
    /\ \E r \in JsforceResults :
        /\ Answered(r)
        /\ r = "ok" => NameFree(bundles, params.componentName)
        /\ IF r = "ok"
           THEN /\ bundles' = Append(bundles,
                        [Id |-> nextId, Name |-> params.componentName])
                /\ entityId' = nextId
                /\ nextId' = nextId + 1
                /\ pc' = "sfdcResources"
                /\ UNCHANGED outcome
           ELSE /\ UNCHANGED <<bundles, entityId, nextId>>
                /\ pc' = "done"
                /\ outcome' = Throw("jsforce", "bundle")
    /\ UNCHANGED <<op, params, calls, containerId, resIdx, pending,
                   pollVars, tokenVars, apexClasses, containers, inv, prev>>
    /\ UNCHANGED <<concurrencyVars, functionVars>>

\* resources.map(...): the three resource creations leave one after the other
\* without an await between them
IssueResources ==
    /\ pc = "sfdcResources"
    /\ calls' = calls \o
          [k \in 1..Len(sfdc_resources) |->
              Call("post", "LightningComponentResource", 0, entityId,
                   sfdc_resources[k].FilePath)]
    /\ answers' = answers \o [k \in 1..Len(sfdc_resources) |-> "pending"]
    /\ pc' = "sfdcAwaitAll"
    /\ UNCHANGED <<op, params, invocationVars, pollVars, outcome, tokenVars,
                   platformVars, inv, prev>>
    /\ UNCHANGED <<concurrencyVars, functionVars>>

\* one resource creation is answered; Promise.all rejects with the first
\* rejection and resolves when all three resolved, then the failures are
\* filtered.  An answer that arrives after Promise.all rejected is dropped.
ResourceCreated(k) ==
    /\ k \in inflight
    /\ IsResourceWrite(calls[k])
    /\ op = "sfdc.createLWC"
    /\ \E r \in JsforceResults :
        /\ answers' = [answers EXCEPT ![k] = r]
        /\ IF pc # "sfdcAwaitAll"
           THEN UNCHANGED <<pc, pending, outcome>>
           ELSE IF r = "rejected"
           THEN pc' = "rollback" /\ pending' = Throw("jsforce", "resource")
                /\ UNCHANGED outcome
           ELSE IF inflight # {k}
           THEN UNCHANGED <<pc, pending, outcome>>
           ELSE IF \E j \in 1..Len(calls) :
                      IsResourceWrite(calls[j]) /\ answers'[j] = "unsuccessful"
           THEN pc' = "rollback" /\ pending' = Throw("ResourcesFailed", "resource")
                /\ UNCHANGED outcome
           ELSE pc' = "done" /\ outcome' = Return("success", params.componentName)
                /\ UNCHANGED pending
    /\ UNCHANGED <<op, params, calls, containerId, entityId, resIdx, pollVars,
                   tokenVars, platformVars, inv, prev>>
    /\ UNCHANGED <<concurrencyVars, functionVars>>

\* a rollback whose own failure replaces the error of the resource
RollbackAnswered_ThrowsRollbackError ==
    /\ pc = "rollback"
    /\ \E k \in inflight, r \in {"ok", "rejected"} :
        /\ calls[k].m = "delete"
        /\ answers' = [answers EXCEPT ![k] = r]
        /\ bundles' = IF r = "ok"
                      THEN SelectSeq(bundles, LAMBDA rec : rec.Id # entityId)
                      ELSE bundles
        /\ outcome' = IF r = "ok" THEN pending ELSE Throw("jsforce", "rollback")
    /\ pc' = "done"
    /\ UNCHANGED <<op, params, calls, invocationVars, pollVars, tokenVars,
                   apexClasses, containers, nextId, inv, prev>>
    /\ UNCHANGED <<concurrencyVars, functionVars>>

\* the answer to the rollback delete of the bundle: its failure is logged and
\* the original error is rethrown
RollbackAnswered ==
    /\ pc = "rollback"
    /\ \E k \in inflight, r \in {"ok", "rejected"} :
        /\ calls[k].m = "delete"
        /\ answers' = [answers EXCEPT ![k] = r]
        /\ bundles' = IF r = "ok"
                      THEN SelectSeq(bundles, LAMBDA rec : rec.Id # entityId)
                      ELSE bundles
    /\ outcome' = pending
    /\ pc' = "done"
    /\ UNCHANGED <<op, params, calls, invocationVars, pollVars, tokenVars,
                   apexClasses, containers, nextId, inv, prev>>
    /\ UNCHANGED <<concurrencyVars, functionVars>>

\* ------------------------------------------------------------------- Next
Next ==
    \/ inv < MaxInvocations /\ \E p \in ApexRequests : createApexClass(p)
    \/ inv < MaxInvocations /\ \E p \in LwcRequests : createLWC(p)
    \/ toolingApi
    \/ ContainerAnswered
    \/ LookupAnswered
    \/ CreateAnswered
    \/ ResourceAnswered
    \/ MemberAnswered
    \/ TriggerAnswered
    \/ StatusAnswered
    \/ PollTimeout
    \/ DeployChecked
    \/ CleanupAnswered
    \/ inv < MaxInvocations /\ \E p \in ApexRequests : sfdc_createApexClass(p)
    \/ inv < MaxInvocations /\ \E p \in LwcRequests : sfdc_createLWC(p)
    \/ jsforceCall
    \/ ConnectAnswered
    \/ SfdcCreateAnswered
    \/ BundleAnswered
    \/ IssueResources
    \/ \E k \in inflight : ResourceCreated(k)
    \/ RollbackAnswered
    \/ inv < MaxInvocations /\ \E p \in LwcRequests : direct_createLWC(p)
    \/ DirectLookupAnswered
    \/ DirectCreateAnswered
    \/ DirectResourceAnswered
    \/ inv < MaxInvocations /\ \E p \in ObjectRequests : sfdc_createCustomObject(p)
    \/ inv < MaxInvocations /\ \E p \in ObjectRequests : sfdc_createCustomField(p)
    \/ inv < MaxInvocations /\ \E p \in PermissionRequests : sfdc_updateFieldPermissions(p)
    \/ MetadataAnswered
    \/ Settle(FALSE)

Spec == Init /\ [][Next]_vars

\* ------------------------- the same UI-bundle request invoked in succession
\* the steps of an invocation of MetadataService's container strategy
ContainerSteps ==
    \/ toolingApi
    \/ ContainerAnswered
    \/ LookupAnswered
    \/ CreateAnswered
    \/ ResourceAnswered
    \/ MemberAnswered
    \/ TriggerAnswered
    \/ StatusAnswered
    \/ PollTimeout
    \/ DeployChecked
    \/ CleanupAnswered

\* one invocation of createApexClass or of createLWC
DeployNext ==
    \/ inv = 0 /\ \E p \in ApexRequests : createApexClass(p)
    \/ inv = 0 /\ \E p \in LwcRequests : createLWC(p)
    \/ ContainerSteps
    \/ Settle(FALSE)

\* one invocation with the scheduling of the poll loop: the event loop runs a
\* continuation that is ready (the next query, the throw after the loop), and
\* a status query that was issued is answered or fails
LiveSpec ==
    /\ Init
    /\ [][DeployNext]_vars
    /\ WF_vars(toolingApi)
    /\ WF_vars(StatusAnswered)
    /\ WF_vars(PollTimeout)

\* the ids of the rows a lookup can return, in the order it returns them: at
\* most MaxRows rows, each id once
RowIds ==
    UNION {{ids \in [1..n -> 1..MaxRows] :
               \A j, k \in 1..n : j # k => ids[j] # ids[k]} : n \in 0..MaxRows}

RowsNamed(ids, name) == [k \in 1..Len(ids) |-> [Id |-> ids[k], Name |-> name]]

\* an org that has no, one or several classes named Foo and bundles named bar
\* (rows of the same name differ in their namespace)
UpsertInit ==
    /\ op = "none"
    /\ pc = "idle"
    /\ params = NoParams
    /\ calls = << >>
    /\ answers = << >>
    /\ containerId = 0
    /\ entityId = 0
    /\ resIdx = 1
    /\ deployId = 0
    /\ script = << >>
    /\ timeoutSeconds = 0
    /\ i = 0
    /\ deployResult = "undefined"
    /\ pending = NoOutcome
    /\ outcome = NoOutcome
    /\ tokenCache = "empty"
    /\ tokenRequested = FALSE
    /\ \E ids \in RowIds :
        /\ apexClasses = RowsNamed(ids, "Foo")
        /\ bundles = RowsNamed(ids, "bar")
    /\ containers = {}
    /\ nextId = MaxRows + 1
    /\ inv = 0
    /\ prev = NoPrev
    /\ tasks = << >>
    /\ now = 0
    /\ expiresAt = 0
    /\ accessToken = 0
    /\ input = NoInput
    /\ result = NoOutcome

UpsertSpec == UpsertInit /\ [][DeployNext]_vars

\* The process dies while an invocation holds its container: after the
\* container create succeeded and before the container delete is issued.
\* What the process had in memory is gone, the platform keeps what it has.
Crash ==
    /\ op \in {"createApexClass", "createLWC"}
    /\ containerId # 0
    /\ Count(calls, IsContainerDelete) = 0
    /\ op' = "none"
    /\ pc' = "idle"
    /\ params' = NoParams
    /\ calls' = << >>
    /\ answers' = << >>
    /\ containerId' = 0
    /\ entityId' = 0
    /\ resIdx' = 1
    /\ deployId' = 0
    /\ script' = << >>
    /\ timeoutSeconds' = 0
    /\ i' = 0
    /\ deployResult' = "undefined"
    /\ pending' = NoOutcome
    /\ outcome' = NoOutcome
    /\ tokenCache' = "empty"
    /\ tokenRequested' = FALSE
    /\ UNCHANGED <<platformVars, inv, prev>>
    /\ UNCHANGED <<concurrencyVars, functionVars>>

\* a container that no running invocation owns
Orphans == containers \ {containerId}

\* invocations of the container strategy and crashes: the restarted process
\* serves the next request
CrashNext ==
    \/ /\ inv < MaxRepeats
       /\ inv > 0 => Orphans # {}
       /\ \/ \E p \in ApexRequests : createApexClass(p)
          \/ \E p \in LwcRequests : createLWC(p)
    \/ ContainerSteps
    \/ Crash
    \/ Settle(FALSE)

CrashSpec == Init /\ [][CrashNext]_vars

Reinvoke ==
    /\ inv \in 1..(MaxRepeats - 1)
    /\ \/ prev.op = "createLWC" /\ createLWC(prev.params)
       \/ prev.op = "sfdc.createLWC" /\ sfdc_createLWC(prev.params)

RepeatNext ==
    \/ inv = 0 /\ \E p \in LwcRequests : createLWC(p)
    \/ inv = 0 /\ \E p \in LwcRequests : sfdc_createLWC(p)
    \/ Reinvoke
    \/ toolingApi
    \/ ContainerAnswered
    \/ LookupAnswered
    \/ CreateAnswered
    \/ ResourceAnswered
    \/ MemberAnswered
    \/ TriggerAnswered
    \/ StatusAnswered
    \/ PollTimeout
    \/ DeployChecked
    \/ CleanupAnswered
    \/ jsforceCall
    \/ BundleAnswered
    \/ IssueResources
    \/ \E k \in inflight : ResourceCreated(k)
    \/ RollbackAnswered
    \/ Settle(TRUE)

RepeatSpec == Init /\ [][RepeatNext]_vars

\* --------------------------------------- pollDeployStatus called on its own
PollInit ==
    /\ op = "pollDeployStatus"
    /\ pc = "poll"
    /\ params = NoParams
    /\ calls = << >>
    /\ answers = << >>
    /\ containerId = 0
    /\ entityId = 0
    /\ resIdx = 1
    /\ deployId = 201
    /\ script \in Scripts
    /\ timeoutSeconds \in 0..MaxTimeout
    /\ i = 0
    /\ deployResult = "undefined"
    /\ pending = NoOutcome
    /\ outcome = NoOutcome
    /\ tokenCache = "empty"
    /\ tokenRequested = FALSE
    /\ apexClasses = << >>
    /\ bundles = << >>
    /\ containers = {}
    /\ nextId = 3
    /\ inv = 1
    /\ prev = NoPrev
    /\ tasks = << >>
    /\ now = 0
    /\ expiresAt = 0
    /\ accessToken = 0
    /\ input = NoInput
    /\ result = NoOutcome

PollNext == toolingApi \/ StatusAnswered \/ PollTimeout

PollSpec == PollInit /\ [][PollNext]_vars

\* ---------------------------------------------- concurrent invocations
\* Invocations that the server runs at the same time, each up to the point
\* where it holds its container: they share the clock, the token cache and
\* the platform.  calls and answers log the login exchanges.
TokenLifetime == 3600
MillisPerSecond == 1000

Prefixes == {"ApexContainer", "LWCContainer"}

sequentialVars == <<op, pc, params, containerId, entityId, resIdx, deployId,
                    script, timeoutSeconds, i, deployResult, pending, outcome,
                    tokenRequested, apexClasses, bundles, nextId, inv, prev,
                    input, result>>

ConcurrentInit ==
    /\ op = "none"
    /\ pc = "idle"
    /\ params = NoParams
    /\ calls = << >>
    /\ answers = << >>
    /\ containerId = 0
    /\ entityId = 0
    /\ resIdx = 1
    /\ deployId = 0
    /\ script = << >>
    /\ timeoutSeconds = 0
    /\ i = 0
    /\ deployResult = "undefined"
    /\ pending = NoOutcome
    /\ outcome = NoOutcome
    /\ tokenCache = "empty"
    /\ tokenRequested = FALSE
    /\ apexClasses = << >>
    /\ bundles = << >>
    /\ containers = {}
    /\ nextId = 3
    /\ inv = 0
    /\ prev = NoPrev
    /\ tasks \in [1..MaxTasks ->
                    {[pc |-> "start", prefix |-> x, name |-> << >>, at |-> 0,
                      src |-> "none", had |-> FALSE, seen |-> 0,
                      bearer |-> 0,
                      container |-> 0, sent |-> NoCall] :
                        x \in Prefixes}]
    /\ now = 0
    /\ expiresAt = 0
    /\ accessToken = 0
    /\ input = NoInput
    /\ result = NoOutcome

\* the number of steps the clock has made to reach n
Ticks(n) ==
    (n \div (TokenLifetime * MillisPerSecond)) + (n % (TokenLifetime * MillisPerSecond))

\* time passes: a millisecond, or the lifetime of a token
Tick ==
    /\ Ticks(now) < MaxTicks
    /\ \E d \in {1, TokenLifetime * MillisPerSecond} : now' = now + d
    /\ UNCHANGED <<sequentialVars, calls, answers, tokenCache, containers,
                   tasks, expiresAt, accessToken>>

\* containerName = prefix_Date.now(), then toolingApi('post', MetadataContainer)
\* is called and the request reaches the interceptor
NameContainer(t) ==
    /\ tasks[t].pc = "start"
    /\ tasks' = [tasks EXCEPT ![t].name = <<tasks[t].prefix, now>>,
                              ![t].pc = "interceptor"]
    /\ UNCHANGED <<sequentialVars, calls, answers, tokenCache, containers,
                   now, expiresAt, accessToken>>

\* a cache that still serves its token in the second it expires
CacheValid_AtExpiry == tokenCache = "set" /\ (now \div MillisPerSecond) <= expiresAt

\* the cached token is present and not expired
CacheValid == tokenCache = "set" /\ (now \div MillisPerSecond) < expiresAt

\* what getAccessToken read when task t called it: the time in seconds, and
\* the cache
Called(t) ==
    [tasks[t] EXCEPT !.at = now \div MillisPerSecond,
                     !.had = (tokenCache = "set"),
                     !.seen = expiresAt]

\* getAccessToken up to its return from the cache or to its await of the
\* login exchange; the interceptor puts the token it returns in the header
\* of the request
getAccessToken(t) ==
    /\ tasks[t].pc = "interceptor"
    /\ IF CacheValid
       THEN /\ tasks' = [tasks EXCEPT ![t] = [Called(t) EXCEPT !.pc = "request",
                                                               !.src = "cache",
                                                               !.bearer = accessToken]]
            /\ UNCHANGED <<calls, answers>>
       ELSE /\ tasks' = [tasks EXCEPT ![t] = [Called(t) EXCEPT !.pc = "exchange",
                                                               !.src = "exchange"]]
            /\ calls' = Append(calls, Call("post", "oauth2/token", 0, t, ""))
            /\ answers' = Append(answers, "pending")
    /\ UNCHANGED <<sequentialVars, tokenCache, containers, now, expiresAt,
                   accessToken>>

\* a failed login exchange that empties the cache
LoginAnswered_ClearsCache(t) ==
    /\ tasks[t].pc = "exchange"
    /\ \E k \in inflight, r \in {"ok", "auth"} :
        /\ calls[k].ref = t
        /\ answers' = [answers EXCEPT ![k] = r]
        /\ IF r = "ok"
           THEN /\ tokenCache' = "set"
                /\ accessToken' = k
                /\ expiresAt' = tasks[t].at + TokenLifetime
                /\ tasks' = [tasks EXCEPT ![t].pc = "request", ![t].bearer = k]
           ELSE /\ tokenCache' = "empty"
                /\ expiresAt' = 0
                /\ accessToken' = 0
                /\ tasks' = [tasks EXCEPT ![t].pc = "failed"]
    /\ UNCHANGED <<sequentialVars, calls, containers, now>>

\* the answer to the login exchange of task t
LoginAnswered(t) ==
    /\ tasks[t].pc = "exchange"
    /\ \E k \in inflight, r \in {"ok", "auth"} :
        /\ calls[k].ref = t
        /\ answers' = [answers EXCEPT ![k] = r]
        /\ IF r = "ok"
           THEN /\ tokenCache' = "set"
                /\ accessToken' = k
                /\ expiresAt' = tasks[t].at + TokenLifetime
                /\ tasks' = [tasks EXCEPT ![t].pc = "request", ![t].bearer = k]
           ELSE /\ UNCHANGED <<tokenCache, expiresAt, accessToken>>
                /\ tasks' = [tasks EXCEPT ![t].pc = "failed"]
    /\ UNCHANGED <<sequentialVars, calls, containers, now>>

\* the platform answers POST MetadataContainer of task t
ContainerCreated(t) ==
    /\ tasks[t].pc = "request"
    /\ \E r \in {"ok", "http"} :
        IF r = "ok"
        THEN /\ containers' = containers \cup {100 + t}
             /\ tasks' = [tasks EXCEPT ![t].pc = "open",
                                       ![t].container = 100 + t]
        ELSE /\ tasks' = [tasks EXCEPT ![t].pc = "failed"]
             /\ UNCHANGED containers
    /\ UNCHANGED <<sequentialVars, calls, answers, tokenCache, now, expiresAt,
                   accessToken>>

\* the artifact of task t: every createApexClass task deploys the class Foo,
\* every createLWC task the bundle bar
TaskIsApex(t) == tasks[t].prefix = "ApexContainer"
TaskName(t) == IF TaskIsApex(t) THEN "Foo" ELSE "bar"
TaskStore(t) == IF TaskIsApex(t) THEN apexClasses ELSE bundles

\* the lookup query of task t and its answer: the task goes on to the update
\* path when the platform has a row of the name and to the create path when
\* it has none
TaskLookup(t) ==
    /\ tasks[t].pc = "open"
    /\ calls' = Append(calls, Call("get", "query", 0, t, TaskName(t)))
    /\ LET rows == SelectSeq(TaskStore(t), LAMBDA rec : rec.Name = TaskName(t))
       IN /\ answers' = Append(answers, IF Len(rows) > 0 THEN "found" ELSE "none")
          /\ tasks' = [tasks EXCEPT
                          ![t].pc = IF Len(rows) > 0 THEN "found" ELSE "absent"]
    /\ UNCHANGED <<op, pc, params, invocationVars, pollVars, outcome,
                   tokenRequested, apexClasses, bundles, nextId, inv, prev>>
    /\ UNCHANGED <<tokenCache, containers, now, expiresAt, accessToken,
                   functionVars>>

\* POST ApexClass / POST LightningComponentBundle of task t and its answer
TaskCreate(t) ==
    /\ tasks[t].pc = "absent"
    /\ calls' = Append(calls,
                       Call("post",
                            IF TaskIsApex(t) THEN "ApexClass"
                                             ELSE "LightningComponentBundle",
                            0, t, TaskName(t)))
    /\ \E r \in {"ok", "http"} :
        /\ answers' = Append(answers, r)
        /\ IF r = "ok"
           THEN /\ apexClasses' =
                     IF TaskIsApex(t)
                     THEN Append(apexClasses, [Id |-> nextId, Name |-> TaskName(t)])
                     ELSE apexClasses
                /\ bundles' =
                     IF TaskIsApex(t)
                     THEN bundles
                     ELSE Append(bundles, [Id |-> nextId, Name |-> TaskName(t)])
                /\ nextId' = nextId + 1
           ELSE UNCHANGED <<apexClasses, bundles, nextId>>
        /\ tasks' = [tasks EXCEPT
                         ![t].pc = IF r = "ok" THEN "created" ELSE "thrown"]
    /\ UNCHANGED <<op, pc, params, invocationVars, pollVars, outcome,
                   tokenRequested, inv, prev>>
    /\ UNCHANGED <<tokenCache, containers, now, expiresAt, accessToken,
                   functionVars>>

\* a service that keeps the id of the container it created last in a field
\* that its invocations share
OwnContainer_Latest(t) ==
    IF containers = {}
    THEN tasks[t].container
    ELSE CHOOSE c \in containers : \A d \in containers : d <= c

\* container.id: the constant of the invocation that holds the answer to its
\* POST MetadataContainer
OwnContainer(t) == tasks[t].container

\* POST ApexClassMember / LightningComponentBundleMember of task t and its
\* answer
TaskMember(t) ==
    /\ tasks[t].pc \in {"found", "created"}
    /\ \E r \in {"ok", "http"} :
        tasks' = [tasks EXCEPT
            ![t].pc = IF r = "ok" THEN "member" ELSE "thrown",
            ![t].sent = Call("post",
                             IF TaskIsApex(t) THEN "ApexClassMember"
                                              ELSE "LightningComponentBundleMember",
                             OwnContainer(t), 0, "")]
    /\ UNCHANGED <<sequentialVars, calls, answers, tokenCache, containers, now,
                   expiresAt, accessToken>>

\* POST ContainerAsyncRequest of task t and its answer
TaskTrigger(t) ==
    /\ tasks[t].pc = "member"
    /\ \E r \in {"ok", "http"} :
        tasks' = [tasks EXCEPT
            ![t].pc = IF r = "ok" THEN "triggered" ELSE "thrown",
            ![t].sent = Call("post", "ContainerAsyncRequest", OwnContainer(t), 0, "")]
    /\ UNCHANGED <<sequentialVars, calls, answers, tokenCache, containers, now,
                   expiresAt, accessToken>>

\* the try block of task t is over, with a value or with an error of any of
\* its calls, and its finally block deleted the container
ContainerClosed(t) ==
    /\ tasks[t].pc \in {"open", "found", "created", "thrown", "member",
                         "triggered"}
    /\ containers' = containers \ {OwnContainer(t)}
    /\ tasks' = [tasks EXCEPT
           ![t].pc = "closed",
           ![t].sent = Call("delete", "MetadataContainer", 0, OwnContainer(t), "")]
    /\ UNCHANGED <<sequentialVars, calls, answers, tokenCache, now, expiresAt,
                   accessToken>>

ConcurrentNext ==
    \/ Tick
    \/ \E t \in 1..MaxTasks : NameContainer(t)
    \/ \E t \in 1..MaxTasks : getAccessToken(t)
    \/ \E t \in 1..MaxTasks : LoginAnswered(t)
    \/ \E t \in 1..MaxTasks : ContainerCreated(t)
    \/ \E t \in 1..MaxTasks : ContainerClosed(t)

ConcurrentSpec == ConcurrentInit /\ [][ConcurrentNext]_vars

\* The request interceptor alone: gateway requests that reach it at any time
\* and in any order, each up to the point where it leaves with its token or
\* fails for want of one.
TokenInit ==
    /\ op = "none"
    /\ pc = "idle"
    /\ params = NoParams
    /\ calls = << >>
    /\ answers = << >>
    /\ containerId = 0
    /\ entityId = 0
    /\ resIdx = 1
    /\ deployId = 0
    /\ script = << >>
    /\ timeoutSeconds = 0
    /\ i = 0
    /\ deployResult = "undefined"
    /\ pending = NoOutcome
    /\ outcome = NoOutcome
    /\ tokenCache = "empty"
    /\ tokenRequested = FALSE
    /\ apexClasses = << >>
    /\ bundles = << >>
    /\ containers = {}
    /\ nextId = 3
    /\ inv = 0
    /\ prev = NoPrev
    /\ tasks = [t \in 1..MaxTasks |->
                  [pc |-> "interceptor", prefix |-> "ApexContainer",
                   name |-> <<"ApexContainer", 0>>, at |-> 0, src |-> "none",
                   had |-> FALSE, seen |-> 0, bearer |-> 0,
                      container |-> 0, sent |-> NoCall]]
    /\ now = 0
    /\ expiresAt = 0
    /\ accessToken = 0
    /\ input = NoInput
    /\ result = NoOutcome

TokenNext ==
    \/ Tick
    \/ \E t \in 1..MaxTasks : getAccessToken(t)
    \/ \E t \in 1..MaxTasks : LoginAnswered(t)

TokenSpec == TokenInit /\ [][TokenNext]_vars

\* Concurrent invocations from the point where each has its token and has
\* sent POST MetadataContainer, through the lookup and the create of its try
\* block, to the delete of its container; the platform starts without the
\* class and without the bundle.
RaceInit ==
    /\ op = "none"
    /\ pc = "idle"
    /\ params = NoParams
    /\ calls = << >>
    /\ answers = << >>
    /\ containerId = 0
    /\ entityId = 0
    /\ resIdx = 1
    /\ deployId = 0
    /\ script = << >>
    /\ timeoutSeconds = 0
    /\ i = 0
    /\ deployResult = "undefined"
    /\ pending = NoOutcome
    /\ outcome = NoOutcome
    /\ tokenCache = "empty"
    /\ tokenRequested = FALSE
    /\ apexClasses = << >>
    /\ bundles = << >>
    /\ containers = {}
    /\ nextId = 3
    /\ inv = 0
    /\ prev = NoPrev
    /\ tasks \in [1..MaxTasks ->
                    {[pc |-> "request", prefix |-> x, name |-> <<x, 0>>,
                      at |-> 0, src |-> "none", had |-> FALSE, seen |-> 0,
                      bearer |-> 0,
                      container |-> 0, sent |-> NoCall] :
                        x \in Prefixes}]
    /\ now = 0
    /\ expiresAt = 0
    /\ accessToken = 0
    /\ input = NoInput
    /\ result = NoOutcome

RaceNext ==
    \/ \E t \in 1..MaxTasks : ContainerCreated(t)
    \/ \E t \in 1..MaxTasks : TaskLookup(t)
    \/ \E t \in 1..MaxTasks : TaskCreate(t)
    \/ \E t \in 1..MaxTasks : TaskMember(t)
    \/ \E t \in 1..MaxTasks : TaskTrigger(t)
    \/ \E t \in 1..MaxTasks : ContainerClosed(t)

RaceSpec == RaceInit /\ [][RaceNext]_vars

\* ------------------------------------------- functions evaluated on their own
\* The parts of the handlers that compute a value from the request or from
\* the platform's answer alone: the state is the arguments and, once the
\* function has run, what it returned or threw.
TargetNames == {"lightning__AppPage", "lightning__HomePage"}

\* params.targets: absent, or a list of target names
TargetLists ==
    {Absent} \cup {Given(ts) : ts \in UNION {[1..n -> TargetNames] : n \in 0..MaxTargets}}

\* params.apiVersion: absent, or a number
ApiVersions == {Absent, Given(0), Given(58), Given(60)}

\* a version that is the default whatever the request gives
OrDefault_AlwaysDefault(x) == 59

\* `x || 59.0`: the default replaces every falsy x, undefined and 0 alike
OrDefault(x) == IF x = Absent \/ x = Given(0) THEN 59 ELSE x[1]

\* targets.map(t => `<target>${t}</target>`).join(...): one entry for each
\* element, in the order of the list
TargetEntries(ts) == [k \in 1..Len(ts) |-> [tag |-> "target", text |-> ts[k]]]

ManifestRequests ==
    {[NoParams EXCEPT !.componentName = "bar", !.masterLabel = "Bar",
                      !.isExposed = e, !.targets = ts, !.apiVersion = v] :
        e \in {"true", "false"}, ts \in TargetLists, v \in {Absent, Given(58)}}

Manifest(p, entries) ==
    [apiVersion |-> OrDefault(p.apiVersion), isExposed |-> p.isExposed,
     masterLabel |-> p.masterLabel, targets |-> entries]

\* MetadataService.createLWC: the content of the .js-meta.xml file
metaXmlContent(p) ==
    Return("metaXmlContent",
           Manifest(p, IF p.targets # Absent
                       THEN TargetEntries(p.targets[1])
                       ELSE << >>))

\* salesforce-client createLWC: the content of the .js-meta.xml file; map is
\* called on params.targets whatever it is
sfdc_metaXmlContent(p) ==
    IF p.targets = Absent
    THEN Throw("TypeError", "targets")
    ELSE Return("metaXmlContent", Manifest(p, TargetEntries(p.targets[1])))

\* the answers to a status query that end the poll: the state, the
\* DeployDetails.componentFailures when the answer has them, and the ErrorMsg
\* when it has one
DeployResults ==
    {[State |-> st, componentFailures |-> cf, ErrorMsg |-> msg] :
        st \in finalStates,
        cf \in {Absent, Given(<< >>), Given(<<"Foo: unexpected token">>)},
        msg \in {Absent, Given(""), Given("deploy aborted")}}

NoDetails == "Nessun dettaglio disponibile."

\* JSON.stringify of a list of failures
Stringify(list) == <<"[">> \o list \o <<"]">>

\* an error message that prefers the flat message to the failure list
ErrorDetails_MessageFirst(r) ==
    IF r.ErrorMsg # Absent /\ r.ErrorMsg # Given("")
    THEN r.ErrorMsg
    ELSE IF r.componentFailures # Absent
         THEN Stringify(r.componentFailures[1])
         ELSE <<NoDetails>>

\* errorDetails: the failure list when the answer has one (an empty list is
\* one), else the message unless it is empty, else the fixed text
ErrorDetails(r) ==
    IF r.componentFailures # Absent
    THEN Stringify(r.componentFailures[1])
    ELSE IF r.ErrorMsg # Absent /\ r.ErrorMsg # Given("")
         THEN r.ErrorMsg
         ELSE <<NoDetails>>

\* the check of the poll's result in createApexClass and createLWC
checkDeployResult(r) ==
    IF r.State # "Completed"
    THEN Throw("DeployFailed", [State |-> r.State, details |-> ErrorDetails(r)])
    ELSE Return("deployed", r.State)

ApexCreateRequests ==
    {[NoParams EXCEPT !.className = "Foo", !.body = "class Foo {}",
                      !.apiVersion = v] : v \in ApiVersions}

\* MetadataService.createApexClass: the body of POST /tooling/sobjects/ApexClass
apexClassBody(p) ==
    Return("ApexClass",
           [FullName |-> p.className, Body |-> p.body,
            ApiVersion |-> OrDefault(p.apiVersion)])

\* salesforce-client createApexClass: the record given to
\* conn.tooling.sobject('ApexClass').create
sfdc_apexClassRecord(p) ==
    Return("ApexClass",
           [FullName |-> p.className, apiVersion |-> OrDefault(p.apiVersion),
            status |-> "Active", body |-> p.body])

FunctionInputs ==
    {[fn |-> f, arg |-> p] :
        f \in {"metaXmlContent", "sfdc.metaXmlContent"}, p \in ManifestRequests}
    \cup {[fn |-> "checkDeployResult", arg |-> r] : r \in DeployResults}
    \cup {[fn |-> f, arg |-> p] :
             f \in {"apexClassBody", "sfdc.apexClassRecord"},
             p \in ApexCreateRequests}

FunctionInit ==
    /\ op = "none"
    /\ pc = "idle"
    /\ params = NoParams
    /\ calls = << >>
    /\ answers = << >>
    /\ containerId = 0
    /\ entityId = 0
    /\ resIdx = 1
    /\ deployId = 0
    /\ script = << >>
    /\ timeoutSeconds = 0
    /\ i = 0
    /\ deployResult = "undefined"
    /\ pending = NoOutcome
    /\ outcome = NoOutcome
    /\ tokenCache = "empty"
    /\ tokenRequested = FALSE
    /\ apexClasses = << >>
    /\ bundles = << >>
    /\ containers = {}
    /\ nextId = 3
    /\ inv = 0
    /\ prev = NoPrev
    /\ tasks = << >>
    /\ now = 0
    /\ expiresAt = 0
    /\ accessToken = 0
    /\ input \in FunctionInputs
    /\ result = NoOutcome

RenderManifest ==
    /\ input.fn = "metaXmlContent"
    /\ result = NoOutcome
    /\ result' = metaXmlContent(input.arg)
    /\ UNCHANGED <<input, calls, answers, tokenCache, containers,
                   concurrencyVars>>
    /\ UNCHANGED <<op, pc, params, invocationVars, pollVars, outcome,
                   tokenRequested, apexClasses, bundles, nextId, inv, prev>>

sfdc_RenderManifest ==
    /\ input.fn = "sfdc.metaXmlContent"
    /\ result = NoOutcome
    /\ result' = sfdc_metaXmlContent(input.arg)
    /\ UNCHANGED <<input, calls, answers, tokenCache, containers,
                   concurrencyVars>>
    /\ UNCHANGED <<op, pc, params, invocationVars, pollVars, outcome,
                   tokenRequested, apexClasses, bundles, nextId, inv, prev>>

CheckDeployResult ==
    /\ input.fn = "checkDeployResult"
    /\ result = NoOutcome
    /\ result' = checkDeployResult(input.arg)
    /\ UNCHANGED <<input, calls, answers, tokenCache, containers,
                   concurrencyVars>>
    /\ UNCHANGED <<op, pc, params, invocationVars, pollVars, outcome,
                   tokenRequested, apexClasses, bundles, nextId, inv, prev>>

BuildApexClassBody ==
    /\ input.fn = "apexClassBody"
    /\ result = NoOutcome
    /\ result' = apexClassBody(input.arg)
    /\ UNCHANGED <<input, calls, answers, tokenCache, containers,
                   concurrencyVars>>
    /\ UNCHANGED <<op, pc, params, invocationVars, pollVars, outcome,
                   tokenRequested, apexClasses, bundles, nextId, inv, prev>>

sfdc_BuildApexClassRecord ==
    /\ input.fn = "sfdc.apexClassRecord"
    /\ result = NoOutcome
    /\ result' = sfdc_apexClassRecord(input.arg)
    /\ UNCHANGED <<input, calls, answers, tokenCache, containers,
                   concurrencyVars>>
    /\ UNCHANGED <<op, pc, params, invocationVars, pollVars, outcome,
                   tokenRequested, apexClasses, bundles, nextId, inv, prev>>

FunctionNext ==
    \/ RenderManifest
    \/ sfdc_RenderManifest
    \/ CheckDeployResult
    \/ BuildApexClassBody
    \/ sfdc_BuildApexClassRecord

FunctionSpec == FunctionInit /\ [][FunctionNext]_vars

\* ------------------------------------------------------------- HTTP server
\* server.ts: the requests the process receives are handled one after the
\* other from the middleware to the response.  input holds the environment
\* the process was started with and the request in hand, result the responses
\* sent for that request, op the tool that execute was called on, calls the
\* remote calls of that tool.
Secret == "s3cret"

\* the environment: SECRET_TOKEN is the variable server.ts reads, API_SECRET
\* the one README.md tells the operator to set
Environments ==
    {[SECRET_TOKEN |-> a, API_SECRET |-> b] :
        a \in {Absent, Given(""), Given(Secret)}, b \in {Absent, Given(Secret)}}

\* values of the Authorization header, as the fields that split(' ') gives
Headers ==
    {Absent, Given(<<"">>), Given(<<"Bearer">>), Given(<<"Basic", Secret>>),
     Given(<<"Bearer", Secret>>), Given(<<"Bearer", "wrong">>),
     Given(<<"Bearer", "">>), Given(<<"Bearer", Secret, "x">>)}

\* the keys of the toolRegistry object
RegistryKeys == {"createApexClass", "createLWC"}

\* names that every object inherits from Object.prototype
InheritedKeys == {"constructor"}

ToolNames == {"createApexClass", "deleteEverything"} \cup InheritedKeys

Requests ==
    {[route |-> r, header |-> h, toolName |-> ""] :
        r \in {"GET /status", "GET /tools"}, h \in Headers}
    \cup {[route |-> "POST /tools/:toolName", header |-> h, toolName |-> n] :
             h \in Headers, n \in ToolNames}

NoRequest == [route |-> "", header |-> Absent, toolName |-> ""]

\* the messages of the errors that the tools throw
ErrorMessages == {"Errore Tooling API", "Deploy fallito"}

serverFrame == <<params, answers, invocationVars, pollVars, tokenVars,
                 platformVars, prev, concurrencyVars>>

ServerInit ==
    /\ op = "none"
    /\ pc = "idle"
    /\ params = NoParams
    /\ calls = << >>
    /\ answers = << >>
    /\ containerId = 0
    /\ entityId = 0
    /\ resIdx = 1
    /\ deployId = 0
    /\ script = << >>
    /\ timeoutSeconds = 0
    /\ i = 0
    /\ deployResult = "undefined"
    /\ pending = NoOutcome
    /\ outcome = NoOutcome
    /\ tokenCache = "empty"
    /\ tokenRequested = FALSE
    /\ apexClasses = << >>
    /\ bundles = << >>
    /\ containers = {}
    /\ nextId = 3
    /\ inv = 0
    /\ prev = NoPrev
    /\ tasks = << >>
    /\ now = 0
    /\ expiresAt = 0
    /\ accessToken = 0
    /\ \E e \in Environments :
        input = [fn |-> "server", env |-> e, req |-> NoRequest, served |-> << >>]
    /\ result = << >>

\* res.status(status).json(body): the response is sent and the handler returns
Respond(status, body) ==
    /\ result' = Append(result, [status |-> status, body |-> body])
    /\ input' = [input EXCEPT !.served = Append(@, status)]
    /\ pc' = "idle"

\* a request arrives; GET /status has no middleware
Receive(r) ==
    /\ pc = "idle"
    /\ inv < MaxRequests
    /\ inv' = inv + 1
    /\ input' = [input EXCEPT !.req = r]
    /\ result' = << >>
    /\ op' = "none"
    /\ calls' = << >>
    /\ outcome' = NoOutcome
    /\ pc' = IF r.route = "GET /status" THEN "status" ELSE "authMiddleware"
    /\ UNCHANGED serverFrame

GetStatus ==
    /\ pc = "status"
    /\ Respond("200", "ok")
    /\ UNCHANGED <<op, calls, outcome, inv, serverFrame>>

\* secretToken = process.env.SECRET_TOKEN
secretToken == input.env.SECRET_TOKEN

\* !secretToken: the variable is not set, or is the empty string
Falsy(x) == x = Absent \/ x = Given("")

\* !authHeader || !authHeader.startsWith('Bearer ')
Malformed(h) == Falsy(h) \/ ~(Len(h[1]) >= 2 /\ h[1][1] = "Bearer")

\* authHeader.split(' ')[1]
TokenOf(h) == h[1][2]

authMiddleware ==
    /\ pc = "authMiddleware"
    /\ IF Falsy(secretToken)
       THEN pc' = "handler" /\ UNCHANGED <<input, result>>
       ELSE IF Malformed(input.req.header)
            THEN Respond("401", "Autorizzazione mancante o malformata.")
            ELSE IF TokenOf(input.req.header) # secretToken[1]
                 THEN Respond("403", "Token non valido.")
                 ELSE pc' = "handler" /\ UNCHANGED <<input, result>>
    /\ UNCHANGED <<op, calls, outcome, inv, serverFrame>>

ListTools ==
    /\ pc = "handler"
    /\ input.req.route = "GET /tools"
    /\ Respond("200", "toolDefinitions")
    /\ UNCHANGED <<op, calls, outcome, inv, serverFrame>>

\* toolRegistry[toolName]: the tool of an own key, a value without execute
\* for a name the object inherits, undefined for any other name
RegistryLookup(n) ==
    IF n \in RegistryKeys THEN "tool"
    ELSE IF n \in InheritedKeys THEN "inherited"
    ELSE "undefined"

\* POST /tools/:toolName up to its await of tool.execute(req.body)
Dispatch ==
    /\ pc = "handler"
    /\ input.req.route = "POST /tools/:toolName"
    /\ IF RegistryLookup(input.req.toolName) = "undefined"
       THEN /\ Respond("404", "Strumento non trovato.")
            /\ UNCHANGED <<op, outcome>>
       ELSE IF RegistryLookup(input.req.toolName) = "tool"
            THEN /\ op' = input.req.toolName
                 /\ pc' = "execute"
                 /\ UNCHANGED <<input, result, outcome>>
            ELSE /\ outcome' = Throw("TypeError", "tool.execute is not a function")
                 /\ pc' = "settled"
                 /\ UNCHANGED <<op, input, result>>
    /\ UNCHANGED <<calls, inv, serverFrame>>

\* the tool calls the platform
ToolCalls ==
    /\ pc = "execute"
    /\ calls = << >>
    /\ calls' = << Call("post", "MetadataContainer", 0, 0, "") >>
    /\ UNCHANGED <<op, pc, outcome, inv, input, result, serverFrame>>

\* execute resolves with the tool's result or rejects with the tool's error
ExecuteSettled ==
    /\ pc = "execute"
    /\ \/ outcome' = Return("result", "success")
       \/ \E m \in ErrorMessages : outcome' = Throw("Error", m)
    /\ pc' = "settled"
    /\ UNCHANGED <<op, calls, inv, input, result, serverFrame>>

\* a handler that answers a thrown error like a result
Reply_ErrorAsResult ==
    /\ pc = "settled"
    /\ Respond("200", outcome.info)
    /\ UNCHANGED <<op, calls, outcome, inv, serverFrame>>

\* res.json({ result }) at the end of the try block, or the catch block
Reply ==
    /\ pc = "settled"
    /\ IF outcome.kind = "return"
       THEN Respond("200", outcome.info)
       ELSE Respond("500", IF outcome.info = "" THEN "Errore sconosciuto"
                                                ELSE outcome.info)
    /\ UNCHANGED <<op, calls, outcome, inv, serverFrame>>

ServerNext ==
    \/ \E r \in Requests : Receive(r)
    \/ GetStatus
    \/ authMiddleware
    \/ ListTools
    \/ Dispatch
    \/ ToolCalls
    \/ ExecuteSettled
    \/ Reply

ServerSpec == ServerInit /\ [][ServerNext]_vars

\* ================================================================ claims
InContainerStrategy == op \in {"createApexClass", "createLWC"}

\* the MetadataContainer create call of the invocation succeeded
ContainerOpened ==
    /\ Len(calls) >= 1
    /\ IsPost(calls[1], "MetadataContainer")
    /\ answers[1] = "ok"

\* no call of the invocation failed or is still unanswered
AllAnswersOk ==
    \A k \in 1..Len(calls) : answers[k] \notin {"pending", "http", "auth"}

\* the answers to the status queries, in the order of the queries
StatusAnswers ==
    LET idx == SelectSeq([k \in 1..Len(calls) |-> k],
                         LAMBDA k : IsStatusQuery(calls[k]) /\ answers[k] # "pending")
    IN [k \in 1..Len(idx) |-> answers[idx[k]]]

Kind(c) == <<c.m, c.obj>>

\* C1: an invocation of createApexClass or of the container based createLWC
\* whose MetadataContainer create call succeeded never issues a second DELETE
\* of a container, and when it has returned or thrown it has issued exactly
\* one DELETE, of its own container, whatever path it took.
C1_ContainerDeletedExactlyOnce ==
    InContainerStrategy =>
        /\ Count(calls, IsContainerDelete) <= 1
        /\ \A k \in 1..Len(calls) :
              IsContainerDelete(calls[k]) =>
                  ContainerOpened /\ calls[k].ref = 100 + inv
        /\ (pc = "done" /\ ContainerOpened) => Count(calls, IsContainerDelete) = 1

\* a createLWC invocation that timed out and has deleted its container
C1_Witness ==
    /\ op = "createLWC"
    /\ pc = "done"
    /\ pending = Throw("Timeout", "InProgress")
    /\ Count(calls, IsStatusQuery) = 60
    /\ Count(calls, IsContainerDelete) = 1

\* C2: when the try block of an invocation ended with an error and the
\* invocation is over, the caller has received that error, also when the
\* container delete of the finally block failed.
C2_CleanupFailureDoesNotMask ==
    (InContainerStrategy /\ pc = "done" /\ pending.kind = "throw") =>
        outcome = pending

\* C3: a valid createApexClass whose lookup found no class, whose calls all
\* succeeded and whose deploy reached Completed has issued, in this order, the
\* container create, the lookup, one ApexClass create, one ApexClassMember
\* create, one ContainerAsyncRequest create, its status queries and last one
\* MetadataContainer delete, and has returned success with the class name.
C3_CreatePathCallOrder ==
    ( /\ op = "createApexClass"
      /\ pc = "done"
      /\ Len(calls) >= 2
      /\ answers[2] = "none"
      /\ AllAnswersOk
      /\ \E k \in 1..Len(calls) : answers[k] = "Completed" ) =>
        /\ Len(calls) >= 7
        /\ [k \in 1..5 |-> Kind(calls[k])] =
              << <<"post", "MetadataContainer">>, <<"get", "query">>,
                 <<"post", "ApexClass">>, <<"post", "ApexClassMember">>,
                 <<"post", "ContainerAsyncRequest">> >>
        /\ \A k \in 6..(Len(calls) - 1) : IsStatusQuery(calls[k])
        /\ Kind(calls[Len(calls)]) = <<"delete", "MetadataContainer">>
        /\ calls[3].data = params.body
        /\ outcome = Return("success", params.className)

\* a createApexClass invocation on the create path that returned success
C3_Witness ==
    /\ op = "createApexClass"
    /\ pc = "done"
    /\ Len(calls) >= 3
    /\ answers[2] = "none"
    /\ outcome.kind = "return"
    /\ Count(calls, LAMBDA c : IsPost(c, "ApexClass")) = 1

IsBundleCreate(c) == IsPost(c, "LightningComponentBundle")

\* the platform accepted every call of the invocation made so far
PlatformAccepted ==
    \A k \in 1..Len(calls) :
        answers[k] \notin {"pending", "http", "auth", "unsuccessful", "rejected"}

\* a UI-bundle invocation that repeats the previous, successful invocation,
\* which created the bundle header
RepeatsCreatingInvocation ==
    /\ inv >= 2
    /\ op \in {"createLWC", "sfdc.createLWC"}
    /\ prev.op = op
    /\ prev.params = params
    /\ prev.ok
    /\ prev.creates = 1

\* C5: when a UI-bundle request is invoked again after an invocation of the
\* same request succeeded and created the bundle header, the second invocation
\* issues no LightningComponentBundle create call (one over both invocations),
\* and it returns success when the platform accepts its calls and the deploy
\* completes.
C5_RepeatCreatesNoSecondBundle ==
    RepeatsCreatingInvocation =>
        /\ Count(calls, IsBundleCreate) = 0
        /\ ( /\ pc = "done"
             /\ PlatformAccepted
             /\ \E k \in 1..Len(calls) : answers[k] = "Completed" ) =>
                outcome.kind = "return"

\* C6: pollDeployStatus with a timeout of at least 3, given Queued, InProgress,
\* Completed on successive queries, never issues a fourth status query, has
\* returned the Completed result as soon as the third query is answered, and
\* ends in no other way when all its queries were answered.
C6_ThreeQueriesToCompleted ==
    ( /\ InHarness
      /\ timeoutSeconds >= 3
      /\ script = <<"Queued", "InProgress", "Completed">> ) =>
        /\ Len(calls) <= 3
        /\ \A k \in 1..Len(calls) : IsStatusQuery(calls[k])
        /\ Len(StatusAnswers) = 3 /\ AllAnswersOk =>
              /\ StatusAnswers = script
              /\ pc = "done"
              /\ outcome = Return("deployResult", "Completed")
        /\ pc = "done" /\ AllAnswersOk =>
              /\ Len(calls) = 3
              /\ outcome = Return("deployResult", "Completed")

\* pollDeployStatus returned Completed after Queued, InProgress, Completed
C6_Witness ==
    /\ InHarness
    /\ pc = "done"
    /\ timeoutSeconds = 3
    /\ StatusAnswers = <<"Queued", "InProgress", "Completed">>
    /\ outcome = Return("deployResult", "Completed")

\* C7: pollDeployStatus raises the timeout error only after exactly
\* timeoutSeconds status queries, none of which returned a terminal state, and
\* the error carries the state of the last query; once timeoutSeconds queries
\* were answered with non-terminal states no further query is issued and the
\* call ends with the timeout error only.
C7_TimeoutAfterBudget ==
    InHarness =>
        /\ outcome.tag = "Timeout" =>
              /\ pc = "done"
              /\ outcome.kind = "throw"
              /\ Len(calls) = timeoutSeconds
              /\ \A k \in 1..Len(calls) : answers[k] \in {"Queued", "InProgress"}
              /\ timeoutSeconds > 0 => outcome.info = answers[Len(calls)]
        /\ ( /\ Len(StatusAnswers) = timeoutSeconds
             /\ \A k \in 1..Len(StatusAnswers) :
                   StatusAnswers[k] \in {"Queued", "InProgress"} ) =>
              /\ Len(calls) = timeoutSeconds
              /\ pc = "done" => outcome.tag = "Timeout"

\* pollDeployStatus timed out after three queries, the last one InProgress
C7_Witness ==
    /\ InHarness
    /\ timeoutSeconds = 3
    /\ Len(calls) = 3
    /\ StatusAnswers = <<"Queued", "Queued", "InProgress">>
    /\ outcome = Throw("Timeout", "InProgress")

\* C8: pollDeployStatus has returned, with that state, as soon as a status
\* query is answered with Completed, Failed, Error or Aborted, so that only its
\* last query can have such an answer; it goes on after Queued and InProgress
\* while queries remain, and it never returns a result with one of these two
\* states.
C8_TerminalStates ==
    InHarness =>
        /\ \A k \in 1..Len(calls) :
              answers[k] \in {"Completed", "Failed", "Error", "Aborted"} =>
                  /\ k = Len(calls)
                  /\ pc = "done"
                  /\ outcome = Return("deployResult", answers[k])
        /\ outcome.kind = "return" =>
              /\ outcome.info \in {"Completed", "Failed", "Error", "Aborted"}
              /\ outcome.info = answers[Len(calls)]
        /\ ( /\ Len(calls) > 0
             /\ answers[Len(calls)] \in {"Queued", "InProgress"}
             /\ Len(calls) < timeoutSeconds ) => pc = "poll"

\* pollDeployStatus returned the Aborted result of its second query
C8_Witness ==
    /\ InHarness
    /\ pc = "done"
    /\ StatusAnswers = <<"InProgress", "Aborted">>
    /\ outcome = Return("deployResult", "Aborted")

\* C9: in a UI-bundle invocation the file writes issued so far are, in this
\* order, the .js file, the .html file and the .js-meta.xml file, and at most
\* one of them is unanswered.
C9_ResourceWritesSequential ==
    op \in {"createLWC", "sfdc.createLWC"} =>
        LET writes == SelectSeq(calls, IsResourceWrite)
            order == <<".js", ".html", ".js-meta.xml">>
        IN  /\ Len(writes) <= 3
            /\ \A k \in 1..Len(writes) : k <= 3 => writes[k].data = order[k]
            /\ Cardinality({k \in inflight : IsResourceWrite(calls[k])}) <= 1

\* C10: an invocation of createApexClass with an empty className or body, or
\* of createLWC with a missing componentName, htmlContent, jsContent or
\* masterLabel or an undefined isExposed, has issued no remote call, has asked
\* for no token and has failed with the validation error.
C10_ValidationBeforeAnyCall ==
    ( \/ /\ op \in {"createApexClass", "sfdc.createApexClass"}
         /\ (params.className = "" \/ params.body = "")
      \/ /\ op = "createLWC"
         /\ \/ params.componentName = ""
            \/ params.htmlContent = ""
            \/ params.jsContent = ""
            \/ params.masterLabel = ""
            \/ params.isExposed = "undefined" ) =>
        /\ calls = << >>
        /\ ~tokenRequested
        /\ pc = "done"
        /\ outcome.kind = "throw"
        /\ outcome.tag = "Validation"

\* C11: an invocation of createApexClass or of the container based createLWC
\* completes with a return value only when its deploy trigger was answered
\* with a deploy id and its last status query returned Completed, and the
\* value is the success payload; when the poller returned Failed, Error or
\* Aborted or timed out, the invocation ends with an error.
C11_SuccessOnlyAfterCompleted ==
    InContainerStrategy =>
        /\ outcome.kind = "return" => outcome = pending
        /\ pending.kind = "return" =>
              /\ \E k \in 1..Len(calls) :
                    IsPost(calls[k], "ContainerAsyncRequest") /\ answers[k] = "ok"
              /\ Len(StatusAnswers) > 0
              /\ StatusAnswers[Len(StatusAnswers)] = "Completed"
              /\ pending = Return("success",
                    IF IsApex THEN params.className ELSE params.componentName)
        /\ ( /\ pc = "done"
             /\ \/ deployResult \in {"Failed", "Error", "Aborted"}
                \/ pending.tag = "Timeout" ) => outcome.kind = "throw"

\* a createLWC invocation that returned success after a Completed deploy
C11_Witness ==
    /\ op = "createLWC"
    /\ pc = "done"
    /\ deployResult = "Completed"
    /\ outcome = Return("success", params.componentName)

\* a call of the invocation on obj with method m that the platform accepted
Accepted(m, obj) ==
    \E k \in 1..Len(calls) :
        /\ calls[k].m = m
        /\ calls[k].obj = obj
        /\ answers[k] = "ok"

\* C12: a createLWC invocation of MetadataService that returned success has
\* opened a container, attached the bundle to it, triggered a deploy, polled
\* it to a terminal state and deleted the container.
C12_SuccessOnlyThroughContainerCycle ==
    (op \in {"createLWC", "createLWC.direct"} /\ outcome.kind = "return") =>
        /\ Accepted("post", "MetadataContainer")
        /\ Accepted("post", "LightningComponentBundleMember")
        /\ Accepted("post", "ContainerAsyncRequest")
        /\ \E k \in 1..Len(calls) :
              IsStatusQuery(calls[k]) /\ answers[k] \in finalStates
        /\ Accepted("delete", "MetadataContainer")

\* a call that attaches content to the container or writes a file
IsMemberWrite(c) ==
    \/ IsPost(c, "ApexClassMember")
    \/ IsPost(c, "LightningComponentResource")
    \/ IsPost(c, "LightningComponentBundleMember")

IsTrigger(c) == IsPost(c, "ContainerAsyncRequest")

\* C13: in an invocation of createApexClass or of the container based
\* createLWC there is at most one deploy trigger; when it is issued all member
\* and file writes of the invocation (one ApexClassMember, or three files and
\* the bundle member) have been issued and answered with success, no member
\* or file is written after it, and every status query comes after the
\* trigger was answered with a deploy id and asks for that id.
C13_TriggerAfterWrites ==
    InContainerStrategy =>
        /\ Count(calls, IsTrigger) <= 1
        /\ \A t \in 1..Len(calls) :
              IsTrigger(calls[t]) =>
                  /\ \A k \in 1..Len(calls) :
                        IsMemberWrite(calls[k]) => k < t /\ answers[k] = "ok"
                  /\ Count(calls, IsMemberWrite) = IF IsApex THEN 1 ELSE 4
        /\ \A q \in 1..Len(calls) :
              IsStatusQuery(calls[q]) =>
                  /\ \E t \in 1..(q - 1) :
                        IsTrigger(calls[t]) /\ answers[t] = "ok"
                  /\ deployId = 200 + inv
                  /\ calls[q].ref = deployId

\* a createLWC invocation that polls its deploy after three file writes
C13_Witness ==
    /\ op = "createLWC"
    /\ Count(calls, IsResourceWrite) = 3
    /\ Count(calls, IsTrigger) = 1
    /\ Count(calls, IsStatusQuery) = 2

IsLogin(c) == c.m = "post" /\ c.obj = "oauth2/token"

\* C14: of the gateway calls that run at the same time, at most one has a
\* login exchange in flight.
C14_OneLoginExchangeAtATime ==
    Cardinality({k \in inflight : IsLogin(calls[k])}) <= 1

\* C15: two invocations that hold an open container at the same time created
\* them under different names.
C15_ContainerNamesDiffer ==
    \A t, u \in DOMAIN tasks :
        (t # u /\ tasks[t].pc = "open" /\ tasks[u].pc = "open") =>
            tasks[t].name # tasks[u].name

\* C16: when a toolingApi call of a MetadataService invocation failed, the
\* same request is not sent again, the caller of toolingApi received an error
\* and not a value: it has left its sequence for the cleanup or has ended,
\* and the error of the invocation is the toolingApi error.
C16_OneRequestNoRetry ==
    op \in {"createApexClass", "createLWC", "createLWC.direct"} =>
        \A k \in 1..Len(calls) :
            answers[k] \in {"http", "auth"} =>
                /\ \A j \in (k + 1)..Len(calls) : calls[j] # calls[k]
                /\ pc \in {"cleanup", "done"}
                /\ \/ pending.kind = "throw" /\ pending.tag = "ToolingApi"
                   \/ outcome.kind = "throw" /\ outcome.tag = "ToolingApi"

\* a createApexClass invocation whose status query failed and that has ended
C16_Witness ==
    /\ op = "createApexClass"
    /\ pc = "done"
    /\ pending = Throw("ToolingApi", "poll")
    /\ \E k \in 1..Len(calls) : IsStatusQuery(calls[k]) /\ answers[k] = "http"

IsLookup(c) == c.m = "get" /\ c.obj = "query"

\* C18: in an invocation of createApexClass or of the container based
\* createLWC the lookup query is issued before the container is opened, and
\* the create of the class or bundle comes before it as well.
C18_LookupBeforeContainer ==
    InContainerStrategy =>
        \A k \in 1..Len(calls) :
            IsPost(calls[k], "MetadataContainer") =>
                /\ \E j \in 1..(k - 1) : IsLookup(calls[j])
                /\ \A j \in (k + 1)..Len(calls) :
                      /\ ~IsLookup(calls[j])
                      /\ ~IsPost(calls[j], "ApexClass")
                      /\ ~IsBundleCreate(calls[j])

IsMetadataCreate(c) ==
    c.m = "post" /\ c.obj \in {"CustomObject", "CustomField"}

\* C19: an invocation of createCustomObject or createCustomField issues, next
\* to the connection's authorization, nothing but one metadata create call of
\* its kind: no lookup, no container, no deploy trigger, no status query; once
\* the call is answered the invocation is over, whatever the answer.
C19_OneMetadataCreate ==
    op \in {"sfdc.createCustomObject", "sfdc.createCustomField"} =>
        /\ Count(calls, IsMetadataCreate) <= 1
        /\ \A k \in 1..Len(calls) :
              \/ k = 1 /\ calls[k].obj = "jwt.authorize"
              \/ /\ k = 2
                 /\ IsMetadataCreate(calls[k])
                 /\ calls[k].obj = IF op = "sfdc.createCustomObject"
                                   THEN "CustomObject" ELSE "CustomField"
        /\ (Len(calls) = 2 /\ answers[2] # "pending") => pc = "done"
        /\ (pc = "done" /\ answers[1] = "ok") => Count(calls, IsMetadataCreate) = 1

\* a createCustomField invocation that the platform refused
C19_Witness ==
    /\ op = "sfdc.createCustomField"
    /\ pc = "done"
    /\ Count(calls, IsMetadataCreate) = 1
    /\ outcome = Return("result", "unsuccessful")

\* C20: an invocation of updateFieldPermissions issues nothing but one Profile
\* update call and never a create call, also when the profile does not exist;
\* once the call is answered the invocation is over.
C20_OneProfileUpdate ==
    op = "sfdc.updateFieldPermissions" =>
        /\ Len(calls) <= 1
        /\ \A k \in 1..Len(calls) :
              /\ calls[k].m = "update"
              /\ calls[k].obj = "Profile"
              /\ calls[k].data = params.profileName
        /\ (Len(calls) = 1 /\ answers[1] # "pending") => pc = "done"
        /\ pc = "done" => Len(calls) = 1

\* an updateFieldPermissions invocation for a profile that does not exist
C20_Witness ==
    /\ op = "sfdc.updateFieldPermissions"
    /\ pc = "done"
    /\ params.profileName \notin Profiles
    /\ Len(calls) = 1
    /\ calls[1].m = "update"
    /\ outcome.kind # "none"

\* C21: the manifest that createLWC generates always has a targets section:
\* an empty one, and no error, when the request's targets are absent or the
\* empty list, and otherwise exactly one target entry for each element of the
\* list, in the order of the list.
IsManifestRendering == input.fn \in {"metaXmlContent", "sfdc.metaXmlContent"}

ExpectedEntries(ts) ==
    IF ts = Absent
    THEN << >>
    ELSE [k \in 1..Len(ts[1]) |-> [tag |-> "target", text |-> ts[1][k]]]

C21_ManifestHasTargetsSection ==
    (IsManifestRendering /\ result # NoOutcome) =>
        /\ result.kind = "return"
        /\ result.info.targets = ExpectedEntries(input.arg.targets)

\* C22: when the poll ends in a terminal state other than Completed, the
\* error names that state, and its detail is the list of component failures
\* when the answer has one, otherwise the answer's error message, otherwise
\* the fixed text that no details are available.
HasFailures(r) == r.componentFailures # Absent
HasMessage(r) == r.ErrorMsg # Absent /\ r.ErrorMsg # Given("")

C22_ErrorDetailPrecedence ==
    (/\ input.fn = "checkDeployResult"
     /\ result # NoOutcome
     /\ input.arg.State # "Completed") =>
        /\ result.kind = "throw"
        /\ result.info.State = input.arg.State
        /\ HasFailures(input.arg) =>
               result.info.details
                   = <<"[">> \o input.arg.componentFailures[1] \o <<"]">>
        /\ (~HasFailures(input.arg) /\ HasMessage(input.arg)) =>
               result.info.details = input.arg.ErrorMsg
        /\ (~HasFailures(input.arg) /\ ~HasMessage(input.arg)) =>
               result.info.details = <<"Nessun dettaglio disponibile.">>

\* a failed deploy whose answer has both a failure list and a message
C22_Witness ==
    /\ input.fn = "checkDeployResult"
    /\ input.arg.State = "Failed"
    /\ input.arg.componentFailures = Given(<<"Foo: unexpected token">>)
    /\ input.arg.ErrorMsg = Given("deploy aborted")
    /\ result.kind = "throw"
    /\ result.info.details = <<"[", "Foo: unexpected token", "]">>

\* C23: the identity of the class or bundle is resolved again by every
\* invocation: it issues its own lookup query, takes the update path exactly
\* when that query returned a row and the create path exactly when it
\* returned none, and between invocations the process keeps no identity.
Store == IF IsApex THEN apexClasses ELSE bundles

Named(n) == {k \in 1..Len(Store) : Store[k].Name = n}

IsArtifactCreate(c) == IsPost(c, "ApexClass") \/ IsPost(c, "LightningComponentBundle")

Sent(t) == tasks[t].pc \in {"request", "open", "closed"}

OwnLogin(t) == {k \in 1..Len(calls) : IsLogin(calls[k]) /\ calls[k].ref = t}

C24_TokenFromValidCacheOrLogin ==
    /\ \A t \in DOMAIN tasks :
        /\ Sent(t) =>
            /\ tasks[t].bearer \in 1..Len(calls)
            /\ IsLogin(calls[tasks[t].bearer])
            /\ answers[tasks[t].bearer] = "ok"
        /\ tasks[t].src = "cache" =>
            /\ tasks[t].had
            /\ tasks[t].at < tasks[t].seen
            /\ OwnLogin(t) = {}
        /\ tasks[t].src = "exchange" =>
            /\ ~(tasks[t].had /\ tasks[t].at < tasks[t].seen)
            /\ Cardinality(OwnLogin(t)) = 1
            /\ Sent(t) => tasks[t].bearer \in OwnLogin(t)
    /\ tokenCache = "set" =>
        /\ accessToken \in 1..Len(calls)
        /\ answers[accessToken] = "ok"
        /\ expiresAt = tasks[calls[accessToken].ref].at + TokenLifetime

\* one task logged in, and before that token expired the other one was
\* served from the cache and sent its request with that token
C24_Witness ==
    \E t, u \in DOMAIN tasks :
        /\ tasks[u].src = "exchange"
        /\ tasks[t].src = "cache"
        /\ tasks[t].pc = "request"
        /\ tasks[t].bearer = tasks[u].bearer
        /\ tasks[t].seen = tasks[u].at + TokenLifetime

\* C25: the poll always ends, and an invocation issues at most as many status
\* queries as its budget has seconds: at most 30 in createApexClass, at most
\* 60 in createLWC, whatever states the platform reports.
StatusQueries == Count(calls, IsStatusQuery)

IsApexCreateBody == input.fn \in {"apexClassBody", "sfdc.apexClassRecord"}

CarriedVersion ==
    IF input.fn = "apexClassBody"
    THEN result.info.ApiVersion
    ELSE result.info.apiVersion

C26_CarriesGivenApiVersion ==
    (IsApexCreateBody /\ result # NoOutcome) =>
        CarriedVersion = IF input.arg.apiVersion = Absent
                         THEN 59
                         ELSE input.arg.apiVersion[1]

\* C26, as the code has it: the call carries the apiVersion of the request
\* when the request gives one that is not 0, and 59.0 when the request
\* leaves the field out or gives 0.
C26_CarriesNonZeroApiVersion ==
    (IsApexCreateBody /\ result # NoOutcome) =>
        CarriedVersion = IF input.arg.apiVersion \in {Absent, Given(0)}
                         THEN 59
                         ELSE input.arg.apiVersion[1]

\* a request with apiVersion 58: the create call carries 58
C26_Witness ==
    /\ input.fn = "apexClassBody"
    /\ input.arg.apiVersion = Given(58)
    /\ result.kind = "return"
    /\ result.info.ApiVersion = 58

\* C27: createApexClass invocations for the same class name that run at the
\* same time, started while the platform has no class of that name, issue at
\* most one ApexClass create call between them, however they interleave.
C27_OneCreateAmongConcurrent ==
    Count(calls, LAMBDA c : IsPost(c, "ApexClass")) <= 1

\* C28: when the process dies after the container create succeeded and
\* before the container delete is issued, the container stays on the
\* platform: no step of the service, in that invocation or in a later one,
\* deletes a container that no running invocation owns.
C28_OrphanContainerStays ==
    [][\A c \in Orphans : c \in containers']_vars

\* after a crash a later invocation ran to its end and deleted its own
\* container; the container of the crashed one is still there
C28_Witness ==
    /\ inv = 2
    /\ pc = "done"
    /\ Count(calls, IsContainerDelete) = 1
    /\ answers[Len(calls)] = "ok"
    /\ containers = {101}

\* C29: when the lookup returns one or more rows the invocation takes the
\* update path with the id of the first row and issues no create call; it
\* issues the create call only when the lookup returned no row.
RowsAtLookup ==
    {k \in Named(calls[2].data) :
        ~(\E c \in 1..Len(calls) :
            IsArtifactCreate(calls[c]) /\ answers[c] = "ok" /\ Store[k].Id = entityId)}

FirstOf(S) == CHOOSE k \in S : \A j \in S : k <= j

C29_UpdateWithFirstRow ==
    (/\ InContainerStrategy
     /\ ContainerOpened
     /\ Len(calls) >= 2
     /\ answers[2] \in {"found", "none"}) =>
        /\ answers[2] = "found" <=> RowsAtLookup # {}
        /\ RowsAtLookup # {} =>
            /\ entityId = Store[FirstOf(RowsAtLookup)].Id
            /\ \A k \in 1..Len(calls) : ~IsArtifactCreate(calls[k])
            /\ \A k \in 1..Len(calls) :
                   (IsMemberWrite(calls[k]) \/ IsResourceWrite(calls[k])) =>
                       calls[k].ref = Store[FirstOf(RowsAtLookup)].Id
        /\ (\E k \in 1..Len(calls) : IsArtifactCreate(calls[k])) =>
               RowsAtLookup = {}

\* the lookup returned two rows, the second one with the smaller id: the
\* member call names the first row
C29_Witness ==
    /\ op = "createApexClass"
    /\ Len(apexClasses) = 2
    /\ apexClasses[1].Id = 2
    /\ Len(calls) >= 3
    /\ answers[2] = "found"
    /\ IsMemberWrite(calls[3])
    /\ calls[3].ref = 2
    /\ answers[3] = "ok"

\* C30: when the MetadataContainer create call fails, the invocation issues
\* no further remote call (no lookup, no create, no member, no trigger, no
\* status query, no container delete) and the caller receives the error of
\* the create call.
ContainerCreateFailed ==
    /\ InContainerStrategy
    /\ Len(calls) >= 1
    /\ IsPost(calls[1], "MetadataContainer")
    /\ answers[1] \in {"http", "auth"}

C30_FailedContainerCreateEndsInvocation ==
    ContainerCreateFailed =>
        /\ Len(calls) = 1
        /\ pc = "done"
        /\ outcome = Throw("ToolingApi", "container")
        /\ containerId = 0
        /\ NewContainerId \notin containers

\* the gateway refused the container create of a valid createLWC request
C30_Witness ==
    /\ op = "createLWC"
    /\ ContainerCreateFailed
    /\ answers[1] = "http"
    /\ outcome.kind = "throw"

\* C31: however concurrent invocations interleave, the container delete of an
\* invocation names the container id that its own container create returned,
\* and so do its member call and its deploy trigger: no invocation deletes or
\* deploys the container of another one.
Holding(t) ==
    tasks[t].pc \in {"open", "found", "absent", "created", "thrown", "member",
                     "triggered"}

NamesContainer(c) ==
    \/ IsPost(c, "ApexClassMember")
    \/ IsPost(c, "LightningComponentBundleMember")
    \/ IsPost(c, "ContainerAsyncRequest")

C31_OwnContainerOnly ==
    \A t \in DOMAIN tasks :
        /\ tasks[t].container \in {0, 100 + t}
        /\ IsContainerDelete(tasks[t].sent) => tasks[t].sent.ref = 100 + t
        /\ NamesContainer(tasks[t].sent) => tasks[t].sent.cont = 100 + t
        /\ Holding(t) => 100 + t \in containers

\* one invocation has deleted its container while another one, which had its
\* container at that time, has triggered the deploy of its own
C31_Witness ==
    \E t, u \in DOMAIN tasks :
        /\ t # u
        /\ tasks[t].pc = "closed"
        /\ IsContainerDelete(tasks[t].sent)
        /\ tasks[u].pc = "triggered"
        /\ tasks[u].sent.cont = 100 + u
        /\ containers = {100 + u}

\* C32: a login exchange that fails leaves the token cache as it was (the
\* token and expiresAt keep their values) and the request that asked for the
\* token ends with an authentication error; the cache is written only in the
\* step that answers a login exchange with success.
tokenCacheState == <<tokenCache, accessToken, expiresAt>>

LoginAnsweredWith(k, r) ==
    /\ k \in 1..Len(calls)
    /\ IsLogin(calls[k])
    /\ answers[k] = "pending"
    /\ answers'[k] = r

C32_FailedLoginKeepsCache ==
    [][/\ \A k \in 1..Len(calls) :
            LoginAnsweredWith(k, "auth") =>
                /\ tokenCacheState' = tokenCacheState
                /\ tasks'[calls[k].ref].pc = "failed"
       /\ tokenCacheState' # tokenCacheState =>
            \E k \in 1..Len(calls) :
                /\ LoginAnsweredWith(k, "ok")
                /\ accessToken' = k]_vars

\* the cache holds the token of one task's exchange, and the exchange of the
\* other task, answered after it, failed
C32_Witness ==
    \E t, u \in DOMAIN tasks :
        /\ tasks[t].pc = "failed"
        /\ tasks[u].pc = "request"
        /\ tasks[u].src = "exchange"
        /\ tokenCache = "set"
        /\ accessToken = tasks[u].bearer
        /\ expiresAt = tasks[u].at + TokenLifetime
        /\ \E k \in 1..Len(calls) : calls[k].ref = t /\ answers[k] = "auth"

\* C33: with a secret configured, a tool is executed or the tool list is
\* returned only for a request whose Authorization header is 'Bearer '
\* followed by exactly the secret; a missing or malformed header is answered
\* 401 and a wrong token 403, no tool being executed; without a secret every
\* request is let through; /status is never protected.
Served == pc = "idle" /\ inv > 0
ConfiguredSecrets ==
    {v[1] : v \in {x \in {input.env.SECRET_TOKEN, input.env.API_SECRET} : ~Falsy(x)}}
LetThrough == op # "none" \/ (\E k \in 1..Len(result) : result[k].body = "toolDefinitions")
StatusSent(st) == Len(result) = 1 /\ result[1].status = st
C33_OnlyTheSecretPasses ==
    Served =>
        LET r == input.req IN
        /\ r.route = "GET /status" => StatusSent("200")
        /\ (r.route # "GET /status" /\ ConfiguredSecrets # {}) =>
              /\ LetThrough => \E k \in ConfiguredSecrets : r.header = Given(<<"Bearer", k>>)
              /\ r.header \in {Absent, Given(<<"">>), Given(<<"Bearer">>), Given(<<"Basic", Secret>>)}
                    => StatusSent("401") /\ op = "none"
              /\ r.header = Given(<<"Bearer", "wrong">>) => StatusSent("403") /\ op = "none"
        /\ ConfiguredSecrets = {} => ~StatusSent("401") /\ ~StatusSent("403")

\* the same statement for the variable the code reads and the headers of
\* at most two fields
C33_SecretTokenTwoFields ==
    (Served /\ (input.req.header = Absent \/ Len(input.req.header[1]) <= 2)
            /\ Falsy(input.env.API_SECRET) )
        => C33_OnlyTheSecretPasses

\* C34: a POST /tools/:toolName whose name is not a key of the tool registry
\* is answered 404; no tool is executed and no remote call is issued.
PassedAuth == Falsy(secretToken) \/ (~Malformed(input.req.header) /\ TokenOf(input.req.header) = secretToken[1])
C34_UnknownToolIs404 ==
    (Served /\ input.req.route = "POST /tools/:toolName" /\ PassedAuth
            /\ input.req.toolName \notin RegistryKeys)
        => StatusSent("404") /\ op = "none" /\ calls = << >>

\* the part of the statement that holds for every name outside the registry
C34_UnknownToolNotExecuted ==
    (input.req.route = "POST /tools/:toolName" /\ input.req.toolName \notin RegistryKeys)
        => op = "none" /\ calls = << >>

\* C35: an authenticated POST to a registered tool gets exactly one response:
\* 200 with the tool's result when execute resolved, 500 with the error's
\* message in details when it threw; a thrown error is never reported as a
\* result, and every request received so far has been answered once the
\* handler is back.
C35_OneResponsePerExecution ==
    /\ pc = "idle" => Len(input.served) = inv
    /\ Len(result) <= 1
    /\ (Served /\ op # "none") =>
          /\ Len(result) = 1
          /\ outcome.kind = "return" =>
                result[1] = [status |-> "200", body |-> outcome.info]
          /\ outcome.kind = "throw" =>
                result[1] = [status |-> "500", body |-> outcome.info]
C35_Witness ==
    /\ Served /\ inv = 2 /\ op \in RegistryKeys
    /\ input.served = <<"500", "200">>
    /\ outcome.kind = "return"
    /\ ~Falsy(secretToken) /\ input.req.header = Given(<<"Bearer", Secret>>)
C35_WitnessThrown ==
    /\ Served /\ op \in RegistryKeys /\ outcome.kind = "throw"
    /\ result = <<[status |-> "500", body |-> "Deploy fallito"]>>

\* C36: in the jsforce createLWC, when the creation of a resource fails after
\* the bundle was created, exactly one delete of that bundle is attempted and
\* the error of the resource is the one thrown, also when the delete itself
\* fails; when the creation of the bundle fails, no resource is created and no
\* delete is attempted.
IsBundleDelete(c) == c.m = "delete" /\ c.obj = "LightningComponentBundle"
BundleDeletes == Count(calls, IsBundleDelete)
ResourceAnswers(r) ==
    {k \in 1..Len(calls) : IsResourceWrite(calls[k]) /\ answers[k] = r}
C36_RollbackOnceOriginalError ==
    op = "sfdc.createLWC" =>
        /\ BundleDeletes <= 1
        /\ \A k \in 1..Len(calls) : IsBundleDelete(calls[k]) =>
              /\ calls[k].ref = entityId
              /\ \E j \in 1..(k - 1) :
                    IsPost(calls[j], "LightningComponentBundle") /\ answers[j] = "ok"
              /\ ResourceAnswers("rejected") \cup ResourceAnswers("unsuccessful") # {}
        /\ (pc = "done" /\ ResourceAnswers("rejected") \cup ResourceAnswers("unsuccessful") # {}) =>
              /\ BundleDeletes = 1
              /\ outcome = IF ResourceAnswers("rejected") # {}
                           THEN Throw("jsforce", "resource")
                           ELSE Throw("ResourcesFailed", "resource")
        /\ (pc = "done" /\ outcome = Throw("jsforce", "bundle")) =>
              /\ Count(calls, IsResourceWrite) = 0
              /\ BundleDeletes = 0
C36_Witness ==
    /\ op = "sfdc.createLWC" /\ pc = "done"
    /\ outcome = Throw("jsforce", "resource")
    /\ \E k \in 1..Len(calls) : IsBundleDelete(calls[k]) /\ answers[k] = "rejected"
    /\ \E b \in 1..Len(bundles) : bundles[b].Id = entityId
C36_WitnessBundleFailed ==
    /\ op = "sfdc.createLWC" /\ pc = "done" /\ outcome = Throw("jsforce", "bundle")

====
